---- MODULE Spec2Model ----
(***************************************************************************)
(* Verification model of MultiSense-Agent: the in-memory conversation      *)
(* store (app/services/memory_service.py), the RAG engine                  *)
(* (app/services/rag_engine.py), the text pipeline                         *)
(* (app/services/processor.py) and the WhatsApp webhook routes             *)
(* (app/routes/webhook.py, app/services/whatsapp_service.py).              *)
(*                                                                         *)
(* Strings whose characters matter (document content, chunk text) are      *)
(* sequences of one-character strings; opaque strings are TLA+ strings.    *)
(* The wall clock is an integer number of hours.                           *)
(***************************************************************************)
EXTENDS Integers, Sequences, FiniteSets, TLC

VARIABLES
    \* ---- MemoryService (memory_service.py) ----
    conversations,   \* self._conversations: insertion-ordered dict, as a sequence of records
    max_history,     \* self.max_history
    ttl_hours,       \* self.ttl_hours
    now,             \* datetime.utcnow(), in hours
    memRet,          \* the last MemoryService / sessions-route call and what it returned
    added,           \* history variable: per session, every turn added since its record was created
    cleared,         \* history variable: sessions cleared and not written since
    \* ---- RAGEngine (rag_engine.py) ----
    store,           \* the ChromaDB collection: chunk id -> [document, embedding, metadata]
    ragRet,          \* the last RAGEngine call: its input, the external calls it made, its result
    \* ---- MultiModalProcessor.process_text behind POST /api/v1/chat ----
    req,             \* per request: where the call is, what it sent to the model, its answer
    \* ---- WhatsApp webhook routes (routes/webhook.py) ----
    verify_token,    \* WhatsAppService.verify_token
    hookRet,         \* the last webhook request and the HTTP response to it
    bgTasks,         \* messages handed to background_tasks.add_task, in order
    \* ---- MultiModalProcessor.process_document and the webhook's background task ----
    docRet,          \* the last process_document call: its input and its outcome
    task,            \* the running process_whatsapp_message task
    \* ---- the embedding normalizers (hf_service.py, rag_engine.py) ----
    embRet,          \* a feature_extraction result and what each normalizer makes of it
    \* ---- the asyncio event loop the request handlers run on ----
    loop,            \* per coroutine: the request it serves and where it is among its external calls
    \* ---- MultiModalProcessor.process_image over HFService.vision_analysis ----
    vis              \* per image request: where it is, and the model requests it has made

memVars == <<conversations, max_history, ttl_hours, now, memRet, added, cleared>>
ragVars == <<store, ragRet>>

chatVars == <<req>>
hookVars == <<verify_token, hookRet, bgTasks>>

procVars == <<docRet, task>>
embVars == <<embRet>>
loopVars == <<loop>>
visVars == <<vis>>

vars == <<memVars, ragVars, chatVars, hookVars, procVars, embVars, loopVars, visVars>>

\* what each component's operations leave alone
notMem == <<ragVars, chatVars, hookVars, procVars, embVars, loopVars, visVars>>
notRag == <<memVars, chatVars, hookVars, procVars, embVars, loopVars, visVars>>
notChat == <<hookVars, procVars, embVars, loopVars, visVars>>
notHook == <<memVars, ragVars, chatVars, procVars, embVars, loopVars, visVars>>
notEmb == <<memVars, ragVars, chatVars, hookVars, procVars, loopVars, visVars>>
notLoop == <<memVars, ragVars, chatVars, hookVars, procVars, embVars, visVars>>
notVis == <<ragVars, chatVars, hookVars, procVars, embVars, loopVars>>

-----------------------------------------------------------------------------
(* Bounds of the model *)

\* largest configured max_conversation_history explored
MaxHistoryCfg == 2
\* add_turn calls followed over the live session records (caps the history variable `added`)
MaxAdded == 3
\* last hour of the wall clock
MaxClock == 3

SessionIds == {"s1", "s2"}
TtlChoices == {1, 2}

\* ConversationTurn values offered to add_turn (role, content, message_type)
TurnInputs ==
    { [role |-> "user", content |-> <<"a">>, message_type |-> "text"],
      [role |-> "assistant", content |-> <<"b">>, message_type |-> "image"] }

-----------------------------------------------------------------------------
(* Sequence helpers *)

Range(s) == { s[i] : i \in 1..Len(s) }

\* Python  xs[-n:]  for n >= 0: the last n elements, the whole list when n = 0
\* (-0 is 0) or when n >= len(xs).
PySliceLast(xs, n) ==
    IF n = 0 \/ n >= Len(xs) THEN xs ELSE SubSeq(xs, Len(xs) - n + 1, Len(xs))

-----------------------------------------------------------------------------
(* MemoryService *)

HasSession(convs, sid) == \E i \in 1..Len(convs) : convs[i].session_id = sid

IndexOf(convs, sid) == CHOOSE i \in 1..Len(convs) : convs[i].session_id = sid

SessionKeys(convs) == [ i \in 1..Len(convs) |-> convs[i].session_id ]

\* del self._conversations[sid]
DelSession_ClearsAll(convs, sid) == <<>>
DelSession(convs, sid) == SelectSeq(convs, LAMBDA c : c.session_id # sid)

\* conv.updated_at < cutoff, cutoff = utcnow() - timedelta(hours=ttl_hours)
IsExpired_AtCutoff(conv, t, ttl) == conv.updated_at <= t - ttl
IsExpired(conv, t, ttl) == conv.updated_at < t - ttl

\* _cleanup_expired: delete every session whose updated_at is before the cutoff
CleanupExpired(convs, t, ttl) ==
    SelectSeq(convs, LAMBDA c : ~IsExpired(c, t, ttl))

\* add_turn, lines 58-60: trim to max history
TrimToMax_NoTrim(turns, m) == turns
TrimToMax_KeepOldest(turns, m) ==
    IF Len(turns) > m THEN SubSeq(turns, 1, m) ELSE turns
TrimToMax(turns, m) ==
    IF Len(turns) > m THEN PySliceLast(turns, m) ELSE turns

AddTurnTo_DropsWhenFull(convs, sid, turn, t, m) ==
    LET c1 == IF HasSession(convs, sid) THEN convs
              ELSE Append(convs, [session_id |-> sid, turns |-> <<>>, updated_at |-> t])
        i == IndexOf(c1, sid)
    IN  [c1 EXCEPT ![i] = [session_id |-> sid,
                           turns |-> IF Len(c1[i].turns) >= m THEN c1[i].turns
                                     ELSE Append(c1[i].turns, turn),
                           updated_at |-> t]]
AddTurnTo_SweepsFirst(convs, sid, turn, t, m) ==
    LET c0 == SelectSeq(convs, LAMBDA c : ~IsExpired(c, t, ttl_hours))
        c1 == IF HasSession(c0, sid) THEN c0
              ELSE Append(c0, [session_id |-> sid, turns |-> <<>>, updated_at |-> t])
        i == IndexOf(c1, sid)
    IN  [c1 EXCEPT ![i] = [session_id |-> sid,
                           turns |-> TrimToMax(Append(c1[i].turns, turn), m),
                           updated_at |-> t]]
\* add_turn on the dict: create the record if absent, append, stamp, trim
AddTurnTo(convs, sid, turn, t, m) ==
    LET c1 == IF HasSession(convs, sid) THEN convs
              ELSE Append(convs, [session_id |-> sid, turns |-> <<>>, updated_at |-> t])
        i == IndexOf(c1, sid)
    IN  [c1 EXCEPT ![i] = [session_id |-> sid,
                           turns |-> TrimToMax(Append(c1[i].turns, turn), m),
                           updated_at |-> t]]

HistoryOf_BeforeLastWrite(convs, sid) ==
    IF HasSession(convs, sid)
    THEN SubSeq(convs[IndexOf(convs, sid)].turns, 1,
                Len(convs[IndexOf(convs, sid)].turns) - 1)
    ELSE <<>>
\* get_history after the sweep: conv.turns, or [] when the session is absent
HistoryOf(convs, sid) ==
    IF HasSession(convs, sid) THEN convs[IndexOf(convs, sid)].turns ELSE <<>>

\* get_chat_messages, line 81: [{"role": t.role, "content": t.content} for t in turns]
ChatMessages(turns) ==
    [ i \in 1..Len(turns) |-> [role |-> turns[i].role, content |-> turns[i].content] ]

\* history value: session sid has a record whose last write is older than the
\* TTL at time t
StaleAt(convs, sid, t, ttl) ==
    HasSession(convs, sid) /\ IsExpired(convs[IndexOf(convs, sid)], t, ttl)

NoRet == [op |-> "none", sid |-> "", history |-> <<>>, messages |-> <<>>,
          sessions |-> <<>>, status |-> "", swept |-> {}, stale |-> FALSE]

SweptBy(convs, t, ttl) ==
    { convs[i].session_id : i \in 1..Len(convs) } \
    { c.session_id : c \in Range(CleanupExpired(convs, t, ttl)) }

ResetAdded(a, gone) == [ s \in SessionIds |-> IF s \in gone THEN <<>> ELSE a[s] ]

RECURSIVE SumLen(_, _)
SumLen(a, S) ==
    IF S = {} THEN 0
    ELSE LET s == CHOOSE x \in S : TRUE IN Len(a[s]) + SumLen(a, S \ {s})

AddedTotal(a) == SumLen(a, SessionIds)

MemInit ==
    /\ conversations = <<>>
    /\ max_history \in 0..MaxHistoryCfg
    /\ ttl_hours \in TtlChoices
    /\ now = 0
    /\ memRet = NoRet
    /\ added = [ s \in SessionIds |-> <<>> ]
    /\ cleared = {}

AddTurn(sid, turn) ==
    /\ AddedTotal(added) < MaxAdded
    /\ conversations' = AddTurnTo(conversations, sid, turn, now, max_history)
    /\ added' = [added EXCEPT ![sid] = Append(@, turn)]
    /\ cleared' = cleared \ {sid}
    /\ memRet' = [NoRet EXCEPT !.op = "add_turn", !.sid = sid,
                               !.stale = StaleAt(conversations, sid, now, ttl_hours)]
    /\ UNCHANGED <<max_history, ttl_hours, now>>
    /\ UNCHANGED notMem

GetHistory(sid) ==
    LET live == CleanupExpired(conversations, now, ttl_hours)
        gone == SweptBy(conversations, now, ttl_hours)
    IN  /\ conversations' = live
        /\ memRet' = [NoRet EXCEPT !.op = "get_history", !.sid = sid,
                                   !.history = HistoryOf(live, sid), !.swept = gone]
        /\ added' = ResetAdded(added, gone)
        /\ UNCHANGED <<max_history, ttl_hours, now, cleared>>
        /\ UNCHANGED notMem

GetChatMessages(sid) ==
    LET live == CleanupExpired(conversations, now, ttl_hours)
        gone == SweptBy(conversations, now, ttl_hours)
    IN  /\ conversations' = live
        /\ memRet' = [NoRet EXCEPT !.op = "get_chat_messages", !.sid = sid,
                                   !.messages = ChatMessages(HistoryOf(live, sid)),
                                   !.swept = gone]
        /\ added' = ResetAdded(added, gone)
        /\ UNCHANGED <<max_history, ttl_hours, now, cleared>>
        /\ UNCHANGED notMem

GetActiveSessions ==
    LET live == CleanupExpired(conversations, now, ttl_hours)
        gone == SweptBy(conversations, now, ttl_hours)
    IN  /\ conversations' = live
        /\ memRet' = [NoRet EXCEPT !.op = "get_active_sessions",
                                   !.sessions = SessionKeys(live), !.swept = gone]
        /\ added' = ResetAdded(added, gone)
        /\ UNCHANGED <<max_history, ttl_hours, now, cleared>>
        /\ UNCHANGED notMem

\* DELETE /api/v1/sessions/{session_id} (routes/health.py) over MemoryService.clear_session
ClearStatus(found) == IF found THEN "cleared" ELSE "not_found"

ClearSession(sid) ==
    LET found == HasSession(conversations, sid)
    IN  /\ conversations' = IF found THEN DelSession(conversations, sid) ELSE conversations
        /\ memRet' = [NoRet EXCEPT !.op = "clear_session", !.sid = sid,
                                   !.status = ClearStatus(found)]
        /\ added' = IF found THEN ResetAdded(added, {sid}) ELSE added
        /\ cleared' = IF found THEN cleared \cup {sid} ELSE cleared
        /\ UNCHANGED <<max_history, ttl_hours, now>>
        /\ UNCHANGED notMem

\* the wall clock advances between calls
Tick ==
    /\ now < MaxClock
    /\ now' = now + 1
    /\ memRet' = NoRet
    /\ UNCHANGED <<conversations, max_history, ttl_hours, added, cleared>>
    /\ UNCHANGED notMem

MemNext ==
    \/ \E sid \in SessionIds, turn \in TurnInputs : AddTurn(sid, turn)
    \/ \E sid \in SessionIds : GetHistory(sid)
    \/ \E sid \in SessionIds : GetChatMessages(sid)
    \/ GetActiveSessions
    \/ \E sid \in SessionIds : ClearSession(sid)
    \/ Tick

-----------------------------------------------------------------------------
(* Text helpers: a text is a sequence of one-character strings *)

Chars == {"a", "b", " "}

IsSpace(c) == c \in {" ", "\n", "\t"}

\* str.strip()
RECURSIVE LStrip(_)
LStrip(t) == IF t # <<>> /\ IsSpace(Head(t)) THEN LStrip(Tail(t)) ELSE t

RECURSIVE RStrip(_)
RStrip(t) ==
    IF t # <<>> /\ IsSpace(t[Len(t)]) THEN RStrip(SubSeq(t, 1, Len(t) - 1)) ELSE t

Strip(t) == RStrip(LStrip(t))

\* sep.join(parts)
RECURSIVE Join(_, _)
Join(parts, sep) ==
    IF parts = <<>> THEN <<>>
    ELSE IF Len(parts) = 1 THEN parts[1]
    ELSE parts[1] \o sep \o Join(Tail(parts), sep)

MatchesAt(t, sep, i) ==
    /\ sep # <<>>
    /\ i + Len(sep) - 1 <= Len(t)
    /\ SubSeq(t, i, i + Len(sep) - 1) = sep

\* re.search(re.escape(sep), text)
Contains(t, sep) == \E i \in 1..Len(t) : MatchesAt(t, sep, i)

DropEmpty(parts) == SelectSeq(parts, LAMBDA x : x # <<>>)

-----------------------------------------------------------------------------
(* RecursiveCharacterTextSplitter(chunk_size, chunk_overlap, length_function=len,
   separators=["\n\n", "\n", ". ", " ", ""]).split_text, as configured in
   RAGEngine.__init__ (keep_separator and strip_whitespace at their defaults) *)

\* settings.rag_chunk_size and settings.rag_chunk_overlap are 1000 and 200
\* characters; the model splits short texts, with these in their place
ChunkSize == 4
ChunkOverlap == 1

Separators == << <<"\n", "\n">>, <<"\n">>, <<".", " ">>, <<" ">>, <<>> >>

\* _split_text_with_regex(text, sep, keep_separator=True): split before every
\* occurrence of sep, each separator staying at the start of the piece after it
RECURSIVE SplitKeepFrom(_, _, _, _, _)
SplitKeepFrom(t, sep, i, cur, acc) ==
    IF i > Len(t) THEN Append(acc, cur)
    ELSE IF MatchesAt(t, sep, i)
         THEN SplitKeepFrom(t, sep, i + Len(sep), sep, Append(acc, cur))
         ELSE SplitKeepFrom(t, sep, i + 1, Append(cur, t[i]), acc)

SplitKeep(t, sep) ==
    IF sep = <<>> THEN [ i \in 1..Len(t) |-> <<t[i]>> ]
    ELSE DropEmpty(SplitKeepFrom(t, sep, 1, <<>>, <<>>))

\* _join_docs: join, strip, None (here <<>>) when nothing is left
JoinDocs(docs, sep) == Strip(Join(docs, sep))

SepLen(cur, sep, atLeast) == IF Len(cur) > atLeast THEN Len(sep) ELSE 0

\* the inner while loop of _merge_splits: pop from the front of current_doc
RECURSIVE PopFront(_, _, _, _)
PopFront(cur, total, dlen, sep) ==
    IF \/ total > ChunkOverlap
       \/ (total + dlen + SepLen(cur, sep, 0) > ChunkSize /\ total > 0)
    THEN PopFront(Tail(cur), total - (Len(cur[1]) + SepLen(cur, sep, 1)), dlen, sep)
    ELSE [cur |-> cur, total |-> total]

\* _merge_splits(splits, separator)
RECURSIVE MergeFrom(_, _, _, _, _, _)
MergeFrom(splits, sep, k, docs, cur, total) ==
    IF k > Len(splits)
    THEN LET doc == JoinDocs(cur, sep)
         IN  IF doc # <<>> THEN Append(docs, doc) ELSE docs
    ELSE LET d == splits[k]
             over == total + Len(d) + SepLen(cur, sep, 0) > ChunkSize
             doc == JoinDocs(cur, sep)
             docs1 == IF over /\ cur # <<>> /\ doc # <<>> THEN Append(docs, doc) ELSE docs
             popped == IF over /\ cur # <<>> THEN PopFront(cur, total, Len(d), sep)
                       ELSE [cur |-> cur, total |-> total]
             cur1 == Append(popped.cur, d)
         IN  MergeFrom(splits, sep, k + 1, docs1, cur1,
                       popped.total + Len(d) + SepLen(cur1, sep, 1))

MergeSplits(splits, sep) == MergeFrom(splits, sep, 1, <<>>, <<>>, 0)

\* the separator _split_text picks: the first one found in the text ("" always is)
RECURSIVE PickSeparator(_, _, _)
PickSeparator(t, seps, i) ==
    IF i > Len(seps) THEN [sep |-> seps[Len(seps)], rest |-> <<>>]
    ELSE IF seps[i] = <<>> THEN [sep |-> <<>>, rest |-> <<>>]
    ELSE IF Contains(t, seps[i]) THEN [sep |-> seps[i], rest |-> SubSeq(seps, i + 1, Len(seps))]
    ELSE PickSeparator(t, seps, i + 1)

\* _split_text(text, separators)
RECURSIVE SplitTextRec(_, _)
RECURSIVE SplitLoop(_, _, _, _, _)
SplitLoop(splits, rest, k, good, final) ==
    IF k > Len(splits)
    THEN IF good # <<>> THEN final \o MergeSplits(good, <<>>) ELSE final
    ELSE LET sp == splits[k]
         IN  IF Len(sp) < ChunkSize
             THEN SplitLoop(splits, rest, k + 1, Append(good, sp), final)
             ELSE LET flushed == IF good # <<>> THEN final \o MergeSplits(good, <<>>)
                                 ELSE final
                      more == IF rest = <<>> THEN <<sp>> ELSE SplitTextRec(sp, rest)
                  IN  SplitLoop(splits, rest, k + 1, <<>>, flushed \o more)

SplitTextRec(t, seps) ==
    LET pick == PickSeparator(t, seps, 1)
    IN  SplitLoop(SplitKeep(t, pick.sep), pick.rest, 1, <<>>, <<>>)

SplitText(content) == SplitTextRec(content, Separators)

-----------------------------------------------------------------------------
(* HFEmbeddings: the feature-extraction service and _normalize.
   A service result is [rank, v]: rank 0 a scalar, rank 1 a list of numbers,
   rank 2 a list of token rows, rank 3 a batch of such lists.  A Python float
   quotient a / b is kept exact, as [num |-> a, den |-> b]. *)

Float(x) == [num |-> x, den |-> 1]

RECURSIVE SumColumn(_, _, _)
SumColumn(rows, d, t) ==
    IF t > Len(rows) THEN 0 ELSE rows[t][d] + SumColumn(rows, d, t + 1)

\* lines 66-73: mean-pool a list of token rows; result[t][d] raises IndexError
\* when a row is shorter than the first one
MeanPool(rows) ==
    LET dim == Len(rows[1])
    IN  IF \E t \in 1..Len(rows) : Len(rows[t]) < dim
        THEN [raised |-> TRUE, vec |-> <<>>]
        ELSE [raised |-> FALSE,
              vec |-> [ d \in 1..dim |-> [num |-> SumColumn(rows, d, 1), den |-> Len(rows)] ]]

\* HFEmbeddings._normalize
Normalize(result) ==
    IF result.rank = 0 THEN [raised |-> FALSE, vec |-> <<Float(result.v)>>]
    ELSE IF Len(result.v) = 0 THEN [raised |-> FALSE, vec |-> <<>>]
    ELSE LET r2 == IF result.rank >= 3 /\ Len(result.v[1]) > 0
                   THEN [rank |-> result.rank - 1, v |-> result.v[1]]
                   ELSE result
         IN  IF r2.rank >= 2 THEN MeanPool(r2.v)
             ELSE [raised |-> FALSE, vec |-> [ i \in 1..Len(r2.v) |-> Float(r2.v[i]) ]]

\* what the embedding model answers for a text: one row of features per character
CharCode(c) == IF c = "a" THEN 1 ELSE IF c = "b" THEN 2 ELSE 0

FeatureExtraction(text) ==
    [rank |-> 2, v |-> [ i \in 1..Len(text) |-> <<CharCode(text[i]), 1>> ]]

\* embed_documents / embed_query on one text
Embed(text) == Normalize(FeatureExtraction(text)).vec

-----------------------------------------------------------------------------
(* RAGEngine *)

\* settings.rag_top_k is 5; the model asks for this many neighbours
TopK == 2

Filenames == {"f1.pdf", "f2.pdf"}

\* hashlib.md5(filename.encode()).hexdigest()[:8]: eight hex digits of the
\* digest, so distinct names can share it; the md5 digests of
\* "report_67279.pdf" and "report_136624.pdf" both begin cc2ce059
DocHash(filename) ==
    IF filename \in {"report_67279.pdf", "report_136624.pdf"} THEN "cc2ce059"
    ELSE IF filename = "f1.pdf" THEN "h1"
    ELSE IF filename = "f2.pdf" THEN "h2"
    ELSE IF filename = "notes.txt" THEN "h3"
    ELSE "h4"

\* document contents offered to ingest_document: empty, whitespace-only,
\* one chunk, two chunks, padded
Contents ==
    { <<>>, <<" ", " ">>, <<"b", " ">>, <<"a", "b", " ", "b", "b">> }

\* PDFs offered to ingest_pdf, as the page texts PdfReader extracts
PdfInputs == { <<>>, << <<>> >>, << <<"a">> >> }

EmptyStore == [ id \in {} |-> 0 ]

\* ids = [f"{doc_hash}_chunk_{i}" for i in range(len(chunks))]
ChunkIds(filename, n) == [ i \in 1..n |-> <<DocHash(filename), i - 1>> ]

\* lines 179-187: metadatas; extra is the caller's metadata ("type": "pdf" or none)
Metadatas(filename, n, extra) ==
    [ i \in 1..n |-> [source |-> filename, chunk_index |-> i - 1,
                      total_chunks |-> n, type |-> extra] ]

\* embed_documents: one feature_extraction call per chunk, results in chunk order
EmbedDocuments_Reversed(chunks) ==
    [ i \in 1..Len(chunks) |-> Embed(chunks[Len(chunks) + 1 - i]) ]
EmbedDocuments(chunks) == [ i \in 1..Len(chunks) |-> Embed(chunks[i]) ]

\* the batch handed to collection.upsert
UpsertBatch(chunks, filename, extra) ==
    LET n == Len(chunks)
        ids == ChunkIds(filename, n)
        embs == EmbedDocuments(chunks)
        metas == Metadatas(filename, n, extra)
    IN  [ i \in 1..n |-> [id |-> ids[i], document |-> chunks[i],
                          embedding |-> embs[i], metadata |-> metas[i]] ]

\* collection.upsert: insert or overwrite by id
Upsert(st, batch) ==
    LET ids == { batch[i].id : i \in 1..Len(batch) }
        last(id) == CHOOSE i \in 1..Len(batch) :
                       /\ batch[i].id = id
                       /\ \A j \in 1..Len(batch) : batch[j].id = id => j <= i
    IN  [ id \in DOMAIN st \cup ids |->
            IF id \in ids
            THEN [document |-> batch[last(id)].document,
                  embedding |-> batch[last(id)].embedding,
                  metadata |-> batch[last(id)].metadata]
            ELSE st[id] ]

NoRagRet == [op |-> "none", content |-> <<>>, filename |-> "", returned |-> 0,
             raised |-> FALSE, embedCalls |-> <<>>, storeOps |-> <<>>,
             batch |-> <<>>, fail |-> "none", results |-> <<>>,
             context |-> <<>>, sources |-> <<>>]

\* line 170: if not chunks
NoChunks_Ignored(chunks) == FALSE
NoChunks(chunks) == chunks = <<>>

\* lines 173-174: embed_documents raises at the failAt-th chunk, before the
\* collection is touched
StoreAfterEmbedFailure_KeepsEmbedded(st, chunks, filename, extra, failAt) ==
    Upsert(st, UpsertBatch(SubSeq(chunks, 1, failAt - 1), filename, extra))
StoreAfterEmbedFailure(st, chunks, filename, extra, failAt) == st

\* ingest_document(content, filename, metadata).  failAt = i > 0: the i-th
\* feature_extraction call raises; storeFail: "collection" or "upsert" raises.
\* The result is the return record and the store afterwards.
IngestDocumentResult(st, content, filename, extra, failAt, storeFail) ==
    LET chunks == SplitText(content)
        n == Len(chunks)
        base == [NoRagRet EXCEPT !.op = "ingest_document", !.content = content,
                                 !.filename = filename]
    IN  IF NoChunks(chunks)
        THEN [ret |-> base, store |-> st]
        ELSE IF failAt \in 1..n
        THEN [ret |-> [base EXCEPT !.raised = TRUE, !.fail = "embed",
                                   !.embedCalls = SubSeq(chunks, 1, failAt)],
              store |-> StoreAfterEmbedFailure(st, chunks, filename, extra, failAt)]
        ELSE IF storeFail = "collection"
        THEN [ret |-> [base EXCEPT !.raised = TRUE, !.fail = "collection",
                                   !.embedCalls = chunks,
                                   !.storeOps = <<"get_or_create_collection">>],
              store |-> st]
        ELSE IF storeFail = "upsert"
        THEN [ret |-> [base EXCEPT !.raised = TRUE, !.fail = "upsert",
                                   !.embedCalls = chunks,
                                   !.storeOps = <<"get_or_create_collection", "upsert">>,
                                   !.batch = UpsertBatch(chunks, filename, extra)],
              store |-> st]
        ELSE [ret |-> [base EXCEPT !.returned = n,
                                   !.embedCalls = chunks,
                                   !.storeOps = <<"get_or_create_collection", "upsert">>,
                                   !.batch = UpsertBatch(chunks, filename, extra)],
              store |-> Upsert(st, UpsertBatch(chunks, filename, extra))]

Digit(i) == <<"1", "2", "3", "4", "5", "6", "7", "8", "9">>[i]

\* extract_text_from_pdf: "[Page i]\n" + text for every page with text, joined by "\n\n"
RECURSIVE PageParts(_, _)
PageParts(pages, i) ==
    IF i > Len(pages) THEN <<>>
    ELSE IF pages[i] # <<>>
    THEN << <<"[", "P", "a", "g", "e", " ", Digit(i), "]", "\n">> \o pages[i] >>
         \o PageParts(pages, i + 1)
    ELSE PageParts(pages, i + 1)

ExtractTextFromPdf(pages) == Join(PageParts(pages, 1), <<"\n", "\n">>)

IngestDocument(content, filename, failAt, storeFail) ==
    LET r == IngestDocumentResult(store, content, filename, "none", failAt, storeFail)
    IN  /\ ragRet' = r.ret
        /\ store' = r.store
        /\ UNCHANGED notRag

\* ingest_pdf(pdf_data, filename)
IngestPdf(pages, filename, failAt, storeFail) ==
    LET text == ExtractTextFromPdf(pages)
        base == [NoRagRet EXCEPT !.op = "ingest_pdf", !.content = text,
                                 !.filename = filename]
        r == IngestDocumentResult(store, text, filename, "pdf", failAt, storeFail)
    IN  /\ IF Strip(text) = <<>>
           THEN ragRet' = base /\ store' = store
           ELSE ragRet' = [r.ret EXCEPT !.op = "ingest_pdf"] /\ store' = r.store
        /\ UNCHANGED notRag

\* collection.query(n_results=k): the ids of the k nearest chunks (fewer when
\* the collection holds fewer), nearest first; the ranking is the store's
Rankings(st, k) ==
    LET m == IF Cardinality(DOMAIN st) < k THEN Cardinality(DOMAIN st) ELSE k
    IN  { r \in [1..m -> DOMAIN st] : \A i, j \in 1..m : i # j => r[i] # r[j] }

ContextSeparator == <<"\n", "\n", "-", "-", "-", "\n", "\n">>

\* list(sources) of a set(): every distinct source once, in the set's iteration order
SourceLists(st, ranked) ==
    LET srcs == { st[ranked[i]].metadata.source : i \in 1..Len(ranked) }
    IN  { l \in [1..Cardinality(srcs) -> srcs] :
            \A i, j \in 1..Cardinality(srcs) : i # j => l[i] # l[j] }

\* lines 274-276: except Exception: return "", []
RetrieveOnError_Reraise == [raised |-> TRUE, context |-> <<>>, sources |-> <<>>]
RetrieveOnError == [raised |-> FALSE, context |-> <<>>, sources |-> <<>>]

\* retrieve_context(query); fail names the call that raises, if any
RetrieveResult(st, fail, ranked, srcList) ==
    IF fail # "none" THEN RetrieveOnError
    ELSE IF ranked = <<>> THEN [raised |-> FALSE, context |-> <<>>, sources |-> <<>>]
    ELSE [raised |-> FALSE,
          context |-> Join([ i \in 1..Len(ranked) |-> st[ranked[i]].document ],
                           ContextSeparator),
          sources |-> srcList]

RetrieveFailures == {"none", "collection", "embed", "query"}

RetrieveStoreOps(fail) ==
    IF fail = "collection" \/ fail = "embed" THEN <<"get_or_create_collection">>
    ELSE <<"get_or_create_collection", "query">>

Queries == { <<"a">> }

RetrieveContext(query, fail) ==
    \E ranked \in IF fail = "none" THEN Rankings(store, TopK) ELSE {<<>>} :
    \E srcList \in SourceLists(store, ranked) :
        LET r == RetrieveResult(store, fail, ranked, srcList)
        IN  /\ ragRet' = [NoRagRet EXCEPT !.op = "retrieve_context", !.content = query,
                            !.fail = fail, !.raised = r.raised,
                            !.results = IF fail = "none" THEN ranked ELSE <<>>,
                            !.embedCalls = IF fail = "collection" THEN <<>> ELSE <<query>>,
                            !.storeOps = RetrieveStoreOps(fail),
                            !.context = r.context, !.sources = r.sources]
            /\ store' = store
            /\ UNCHANGED notRag

\* the external failures an ingestion is run against: none, the first or the
\* second embedding call, the collection lookup, the upsert
IngestFaults ==
    { <<0, "none">>, <<1, "none">>, <<2, "none">>, <<0, "collection">>, <<0, "upsert">> }

RagInit ==
    /\ store = EmptyStore
    /\ ragRet = NoRagRet

RagNext ==
    \/ \E content \in Contents, filename \in Filenames, fault \in IngestFaults :
          IngestDocument(content, filename, fault[1], fault[2])
    \/ \E pages \in PdfInputs, filename \in Filenames, fault \in IngestFaults :
          IngestPdf(pages, filename, fault[1], fault[2])
    \/ \E query \in Queries, fail \in RetrieveFailures : RetrieveContext(query, fail)

\* the memory configuration under which the other components are explored
MemFixedInit == MemInit /\ max_history = MaxHistoryCfg /\ ttl_hours = 1

-----------------------------------------------------------------------------
(* WhatsApp webhook routes (routes/webhook.py) over
   WhatsAppService.verify_webhook and parse_webhook_payload
   (services/whatsapp_service.py) *)

\* background tasks followed
MaxBgTasks == 2

VerifyTokens == {"secret", ""}

\* a query parameter: sent with a value, or not sent
QueryParams(values) ==
    { [present |-> TRUE, value |-> v] : v \in values } \cup { [present |-> FALSE, value |-> ""] }

\* params.get(name, "")
QueryGet(param) == IF param.present THEN param.value ELSE ""

\* WhatsAppService.verify_webhook: the challenge, or None
Verified(mode, token, challenge) ==
    IF mode = "subscribe" /\ token = verify_token
    THEN [none |-> FALSE, value |-> challenge]
    ELSE [none |-> TRUE, value |-> ""]

\* `if result:`  -- None and the empty string are both falsy
Truthy(result) == ~result.none /\ result.value # ""

NoHookRet == [op |-> "none", mode |-> "", token |-> "", challenge |-> "",
              http |-> 0, body |-> "", status |-> "", message_id |-> "",
              has_message_id |-> FALSE, scheduled |-> 0, payload |-> "none"]

\* GET /api/v1/webhook/whatsapp
VerifyWebhook(pmode, ptoken, pchallenge) ==
    LET mode == QueryGet(pmode)
        token == QueryGet(ptoken)
        challenge == QueryGet(pchallenge)
        result == Verified(mode, token, challenge)
        base == [NoHookRet EXCEPT !.op = "verify", !.mode = mode, !.token = token,
                                  !.challenge = challenge]
    IN  /\ hookRet' = IF Truthy(result)
                      THEN [base EXCEPT !.http = 200, !.body = result.value]
                      ELSE [base EXCEPT !.http = 403, !.body = "Webhook verification failed"]
        /\ UNCHANGED <<verify_token, bgTasks>>
        /\ UNCHANGED notHook

\* The JSON body of a POST, by the shape of each part the parser reads:
\*   top       "dict", or another JSON value ("list", "string", "null")
\*   entry, changes, messages
\*             "missing" (key absent), "empty" ([]), "malformed" (not a list
\*             of objects), "ok"
\*   value     "missing", "malformed" (not an object), "ok"
\*   mtype     the message's "type", "missing", or "unhashable" (a list)
\*   id        "ok" (the string in idv), "missing", "nonstring"
\*   sub       the object named after the type: "ok", "missing", "malformed";
\*             an audio or image object carries no mime_type of its own
Shapes == {"missing", "empty", "malformed", "ok"}
MsgTypes == {"text", "audio", "image", "document", "sticker", "missing", "unhashable"}

BasePayload == [top |-> "dict", entry |-> "ok", changes |-> "ok", value |-> "ok",
                messages |-> "ok", mtype |-> "text", id |-> "ok", idv |-> "wamid.1",
                from |-> "15550001", sub |-> "ok", body |-> "hello", media |-> "media.1",
                mime |-> "application/pdf", caption |-> "notes.pdf"]

Payloads ==
    { [BasePayload EXCEPT !.top = t] : t \in {"list", "string", "null"} }
    \cup { [BasePayload EXCEPT !.entry = x] : x \in Shapes }
    \cup { [BasePayload EXCEPT !.changes = x] : x \in Shapes }
    \cup { [BasePayload EXCEPT !.value = x] : x \in {"missing", "malformed"} }
    \cup { [BasePayload EXCEPT !.messages = x] : x \in Shapes }
    \cup { [BasePayload EXCEPT !.mtype = t, !.sub = u] :
              t \in MsgTypes, u \in {"ok", "missing", "malformed"} }
    \cup { [BasePayload EXCEPT !.mtype = t, !.id = i] :
              t \in MsgTypes, i \in {"missing", "nonstring"} }

\* type_mapping.get(msg_type, MessageType.TEXT)
MessageTypeOf(mtype) ==
    IF mtype = "audio" THEN "voice"
    ELSE IF mtype \in {"image", "document"} THEN mtype
    ELSE "text"

\* what happens inside the try block of parse_webhook_payload:
\* "none" (an early return None), "raise" (an exception), "message"
ParseTry(p) ==
    IF p.top # "dict" THEN "raise"
    ELSE IF p.entry \in {"missing", "empty"} THEN "none"
    ELSE IF p.entry = "malformed" THEN "raise"
    ELSE IF p.changes \in {"missing", "empty"} THEN "none"
    ELSE IF p.changes = "malformed" THEN "raise"
    ELSE IF p.value = "malformed" THEN "raise"
    ELSE IF p.value = "missing" \/ p.messages \in {"missing", "empty"} THEN "none"
    ELSE IF p.messages = "malformed" THEN "raise"
    ELSE IF p.mtype = "unhashable" THEN "raise"
    ELSE IF p.id = "nonstring" THEN "raise"
    ELSE IF p.mtype \in {"text", "missing", "audio", "image", "document"}
            /\ p.sub = "malformed"
         THEN "raise"
    ELSE "message"

\* the WhatsAppMessage built at lines 166-189
ParsedMessage(p) ==
    LET t == IF p.mtype = "missing" THEN "text" ELSE p.mtype
        has == p.sub = "ok"
    IN  [message_id |-> IF p.id = "ok" THEN p.idv ELSE "",
         from_number |-> p.from,
         message_type |-> MessageTypeOf(t),
         text |-> IF t = "text" THEN (IF has THEN p.body ELSE "") ELSE "None",
         media_id |-> IF t \in {"audio", "image", "document"} /\ has THEN p.media ELSE "None",
         mime_type |-> IF t = "audio" THEN "audio/ogg"
                       ELSE IF t = "image" THEN "image/jpeg"
                       ELSE IF t = "document" /\ has THEN p.mime
                       ELSE "None",
         caption |-> IF t \in {"image", "document"} /\ has THEN p.caption ELSE "None"]

\* lines 199-201: the except block logs list(payload.keys()) and returns None;
\* payload.keys() itself raises when the payload is not a dict
ParseExcept(p) == IF p.top = "dict" THEN "none" ELSE "raise"

\* parse_webhook_payload(payload): "none", "message" or "raise"
ParseOutcome(p) ==
    IF ParseTry(p) = "raise" THEN ParseExcept(p) ELSE ParseTry(p)

PayloadKind(p) ==
    IF p.top # "dict" THEN "not_an_object"
    ELSE IF ParseTry(p) = "message" THEN "message"
    ELSE IF ParseTry(p) = "raise" THEN "malformed"
    ELSE "no_message"

\* POST /api/v1/webhook/whatsapp
ReceiveWebhook(p) ==
    LET outcome == ParseOutcome(p)
        base == [NoHookRet EXCEPT !.op = "receive", !.payload = PayloadKind(p)]
    IN  /\ outcome = "message" => Len(bgTasks) < MaxBgTasks
        /\ IF outcome = "raise"
           THEN /\ hookRet' = [base EXCEPT !.http = 500, !.body = "Internal Server Error"]
                /\ bgTasks' = bgTasks
           ELSE IF outcome = "none"
           THEN /\ hookRet' = [base EXCEPT !.http = 200, !.status = "ok"]
                /\ bgTasks' = bgTasks
           ELSE /\ hookRet' = [base EXCEPT !.http = 200, !.status = "received",
                                           !.message_id = ParsedMessage(p).message_id,
                                           !.has_message_id = TRUE, !.scheduled = 1]
                /\ bgTasks' = Append(bgTasks, ParsedMessage(p))
        /\ UNCHANGED verify_token
        /\ UNCHANGED notHook

HookInit ==
    /\ verify_token \in VerifyTokens
    /\ hookRet = NoHookRet
    /\ bgTasks = <<>>

HookFixedInit == HookInit /\ verify_token = "secret"

NoDocRet == [op |-> "none", sid |-> "", filename |-> "", mime_type |-> "None",
             raised |-> FALSE, chunks |-> 0, response |-> <<>>, sources |-> <<>>]

NoMessage == [message_id |-> "", from_number |-> "", message_type |-> "none",
              text |-> "None", media_id |-> "None", mime_type |-> "None",
              caption |-> "None"]

IdleTask == [pc |-> "idle", msg |-> NoMessage, failed_at |-> "none",
             reply |-> <<>>, nsent |-> 0, sent |-> <<>>, escaped |-> FALSE]

NoEmbRet == [input |-> [rank |-> 1, v |-> <<>>], done |-> FALSE,
             rag |-> [raised |-> FALSE, vec |-> <<>>],
             hf |-> [raised |-> FALSE, vec |-> <<>>]]

\* no document processed yet, no background task running, nothing normalized
\* the coroutines followed on the event loop
LoopTasks == {"t1", "t2"}

IdleLoop == [ t \in LoopTasks |-> [pc |-> "idle", kind |-> "none", returned |-> 0] ]

\* the image requests followed
ImageRequests == {"r1", "r2"}

IdleVision == [pc |-> "idle", sid |-> "", caption |-> "None", vattempts |-> 0,
               attempts |-> 0, captions |-> 0, llm_requests |-> 0, analysis |-> <<>>]

ProcInit ==
    /\ docRet = NoDocRet /\ task = IdleTask /\ embRet = NoEmbRet /\ loop = IdleLoop
    /\ vis = [ r \in ImageRequests |-> IdleVision ]

Modes == {"subscribe", "unsubscribe"}
Tokens == {"secret", "wrong", ""}
Challenges == {"1158201444", ""}

HookNext ==
    \/ \E pmode \in QueryParams(Modes), ptoken \in QueryParams(Tokens),
          pchallenge \in QueryParams(Challenges) : VerifyWebhook(pmode, ptoken, pchallenge)
    \/ \E p \in Payloads : ReceiveWebhook(p)

-----------------------------------------------------------------------------
(* MultiModalProcessor.process_text (processor.py) behind POST /api/v1/chat
   (routes/chat.py), with HFService.chat_completion (hf_service.py).
   A request runs in two atomic pieces: up to the first awaited model request,
   and from the model's answer to the return.  retrieve_context awaits nothing
   that suspends, so it runs inside the first piece. *)

\* @retry(stop=stop_after_attempt(3))
MaxAttempts == 3

Requests == {"r1", "r2"}

\* the message text of each request
TextOf(r) == IF r = "r1" THEN <<"p">> ELSE <<"q">>

\* what the language model may answer
Responses == { <<"x">> }

\* the collections the chat requests are run against: empty, and holding one
\* two-chunk document
ChatStores ==
    { EmptyStore,
      IngestDocumentResult(EmptyStore, <<"a", "b", " ", "b", "b">>, "f1.pdf",
                           "none", 0, "none").store }

\* lines 82-87: the context-augmented prompt
AugmentedPrompt(context, text) ==
    << "Use the following context to answer the user's question. If the context is not relevant, answer from your general knowledge.\n\n--- Retrieved Context ---\n" >>
    \o context \o << "\n--- End Context ---\n\nUser Question: " >> \o text

BuildPrompt_AlwaysAugment(context, text) == AugmentedPrompt(context, text)
\* lines 78-87: augmented_prompt = text, replaced only `if context:`
BuildPrompt(context, text) ==
    IF context # <<>> THEN AugmentedPrompt(context, text) ELSE text

IdleReq == [pc |-> "idle", sid |-> "", text |-> <<>>, use_rag |-> FALSE,
            rfail |-> "none", context |-> <<>>, sources |-> <<>>,
            messages |-> <<>>, attempts |-> 0,
            http |-> 0, response |-> <<>>, out_sources |-> <<>>]

ChatInit == req = [ r \in Requests |-> IdleReq ]

\* lines 91-94: history = get_chat_messages(session_id); the last message's
\* content is replaced by the prompt
SplicePrompt_ReplacesFirst(history, prompt) ==
    IF history # <<>> THEN [history EXCEPT ![1].content = prompt]
    ELSE history
SplicePrompt(history, prompt) ==
    IF history # <<>> THEN [history EXCEPT ![Len(history)].content = prompt]
    ELSE history

\* process_text up to the first model request: record the user turn, retrieve,
\* build the messages, call chat_completion (attempt 1)
StartText(r, sid, use_rag, fail) ==
    /\ req[r].pc = "idle"
    /\ \E ranked \in IF use_rag /\ fail = "none" THEN Rankings(store, TopK) ELSE {<<>>} :
       \E srcList \in SourceLists(store, ranked) :
        LET text == TextOf(r)
            turn == [role |-> "user", content |-> text, message_type |-> "text"]
            c1 == AddTurnTo(conversations, sid, turn, now, max_history)
            rr == IF use_rag THEN RetrieveResult(store, fail, ranked, srcList)
                  ELSE [raised |-> FALSE, context |-> <<>>, sources |-> <<>>]
            prompt == BuildPrompt(rr.context, text)
            live == CleanupExpired(c1, now, ttl_hours)
            gone == SweptBy(c1, now, ttl_hours)
            history == ChatMessages(HistoryOf(live, sid))
            started == [IdleReq EXCEPT !.sid = sid, !.text = text, !.use_rag = use_rag,
                                       !.rfail = IF use_rag THEN fail ELSE "none"]
        IN  IF rr.raised
            THEN \* the error leaves process_text; the route answers 500
                 /\ conversations' = c1
                 /\ added' = [added EXCEPT ![sid] = Append(@, turn)]
                 /\ cleared' = cleared \ {sid}
                 /\ memRet' = [NoRet EXCEPT !.op = "add_turn", !.sid = sid]
                 /\ req' = [req EXCEPT ![r] = [started EXCEPT !.pc = "failed", !.http = 500]]
            ELSE /\ conversations' = live
                 /\ added' = ResetAdded([added EXCEPT ![sid] = Append(@, turn)], gone)
                 /\ cleared' = cleared \ {sid}
                 /\ memRet' = [NoRet EXCEPT !.op = "get_chat_messages", !.sid = sid,
                                            !.messages = history, !.swept = gone]
                 /\ req' = [req EXCEPT ![r] =
                              [started EXCEPT !.pc = "awaiting_llm",
                                              !.context = rr.context,
                                              !.sources = rr.sources,
                                              !.messages = SplicePrompt(history, prompt),
                                              !.attempts = 1]]
    /\ UNCHANGED <<max_history, ttl_hours, now, ragVars>>
    /\ UNCHANGED notChat

\* the awaited model request answers: record the assistant turn, return
LlmReply(r, response) ==
    /\ req[r].pc = "awaiting_llm"
    /\ LET turn == [role |-> "assistant", content |-> response, message_type |-> "text"]
       IN  /\ conversations' = AddTurnTo(conversations, req[r].sid, turn, now, max_history)
           /\ added' = [added EXCEPT ![req[r].sid] = Append(@, turn)]
    /\ cleared' = cleared \ {req[r].sid}
    /\ memRet' = [NoRet EXCEPT !.op = "add_turn", !.sid = req[r].sid]
    /\ req' = [req EXCEPT ![r].pc = "done", ![r].http = 200, ![r].response = response,
                          ![r].out_sources = req[r].sources]
    /\ UNCHANGED <<max_history, ttl_hours, now, ragVars>>
    /\ UNCHANGED notChat

\* stop_after_attempt(3): another attempt follows a failed one while fewer than
\* three were made
MayRetry_OneMore(attempts) == attempts <= MaxAttempts
MayRetry(attempts) == attempts < MaxAttempts

LlmFail_RollsBack(r) ==
    /\ req[r].pc = "awaiting_llm"
    /\ IF MayRetry(req[r].attempts)
       THEN /\ req' = [req EXCEPT ![r].attempts = @ + 1]
            /\ conversations' = conversations
       ELSE /\ req' = [req EXCEPT ![r].pc = "failed", ![r].http = 500]
            /\ conversations' = DelSession(conversations, req[r].sid)
    /\ UNCHANGED <<max_history, ttl_hours, now, memRet, added, cleared, ragVars>>
    /\ UNCHANGED notChat
\* the awaited model request raises: retry, or after the last attempt let the
\* error reach the route, which answers 500
LlmFail(r) ==
    /\ req[r].pc = "awaiting_llm"
    /\ IF MayRetry(req[r].attempts)
       THEN req' = [req EXCEPT ![r].attempts = @ + 1]
       ELSE req' = [req EXCEPT ![r].pc = "failed", ![r].http = 500]
    /\ UNCHANGED <<memVars, ragVars>>
    /\ UNCHANGED notChat

ChatNext ==
    \/ \E r \in Requests, sid \in SessionIds, use_rag \in BOOLEAN, fail \in RetrieveFailures :
          StartText(r, sid, use_rag, fail)
    \/ \E r \in Requests, response \in Responses : LlmReply(r, response)
    \/ \E r \in Requests : LlmFail(r)
    \/ \E sid \in SessionIds : ClearSession(sid)

InitChat ==
    /\ MemFixedInit /\ store \in ChatStores /\ ragRet = NoRagRet /\ ChatInit
    /\ HookFixedInit /\ ProcInit

SpecChat == InitChat /\ [][ChatNext]_vars

InitRag == MemFixedInit /\ RagInit /\ ChatInit /\ HookFixedInit /\ ProcInit

SpecRag == InitRag /\ [][RagNext]_vars

\* repeated ingestion: the filenames ingested again and again, two of them
\* with the same id prefix
ReingestFilenames == {"f1.pdf", "report_67279.pdf", "report_136624.pdf"}

ReingestNext ==
    \/ \E content \in Contents, filename \in ReingestFilenames :
          IngestDocument(content, filename, 0, "none")
    \/ \E query \in Queries, fail \in RetrieveFailures : RetrieveContext(query, fail)

InitReingest == InitRag

SpecReingest == InitReingest /\ [][ReingestNext]_vars

InitHook == MemFixedInit /\ RagInit /\ ChatInit /\ HookInit /\ ProcInit

SpecHook == InitHook /\ [][HookNext]_vars



InitMem == MemInit /\ RagInit /\ ChatInit /\ HookFixedInit /\ ProcInit

SpecMem == InitMem /\ [][MemNext]_vars

-----------------------------------------------------------------------------
(* MultiModalProcessor.process_document (processor.py).  ingest_pdf awaits
   nothing that suspends, so one call is one step. *)

DocFilenames == {"f1.pdf", "notes.txt"}

\* the mime_type argument; "None" is Python's None
MimeTypes == {"None", "application/pdf", "text/plain"}

\* "pdf" in mime_type.lower()
MimeHasPdf(mime) == mime = "application/pdf"

\* filename.lower().endswith(".pdf")
EndsWithPdf(filename) == filename \in {"f1.pdf", "f2.pdf", "document.pdf", "notes.pdf"}

\* line 215: `mime_type and "pdf" in mime_type.lower() or filename.lower().endswith(".pdf")`
TreatedAsPdf(filename, mime) ==
    (mime # "None" /\ MimeHasPdf(mime)) \/ EndsWithPdf(filename)

\* str(chunks) inside the f-string
NumStr(n) == <<"0", "1", "2", "3", "4", "5", "6", "7", "8", "9">>[n + 1]

\* lines 217-222 and 224-228: the response text, piece by piece
DocProcessedText(filename, n) ==
    << "Document Processed: ", filename, " Successfully ingested into knowledge base. Created ",
       NumStr(n), " searchable chunks. You can now ask me questions about this document!" >>

UnsupportedText(mime) ==
    << "Currently, I only support PDF documents for RAG ingestion. Received: ",
       IF mime = "None" THEN "unknown type" ELSE mime,
       " Please send a PDF file to add it to my knowledge base." >>

\* line 231: f"[Document sent: {filename}]"
DocSentText(filename) == << "[Document sent: ", filename, "]" >>

\* ingest_pdf(pdf_data, filename): the return record and the store afterwards
IngestPdfResult(st, pages, filename, failAt, storeFail) ==
    LET text == ExtractTextFromPdf(pages)
        r == IngestDocumentResult(st, text, filename, "pdf", failAt, storeFail)
    IN  IF Strip(text) = <<>>
        THEN [ret |-> [NoRagRet EXCEPT !.op = "ingest_pdf", !.content = text,
                                       !.filename = filename],
              store |-> st]
        ELSE [ret |-> [r.ret EXCEPT !.op = "ingest_pdf"], store |-> r.store]

\* process_document(doc_data, session_id, filename, mime_type) at time t, where
\* ing is what ingest_pdf does when it is called: whether the call raised, what
\* it returned, and the memory and the store afterwards
ProcessDocumentResult(convs, st, sid, filename, mime, ing, t, m) ==
    LET pdf == TreatedAsPdf(filename, mime)
        response == IF pdf THEN DocProcessedText(filename, ing.ret.returned)
                    ELSE UnsupportedText(mime)
        userTurn == [role |-> "user", content |-> DocSentText(filename),
                     message_type |-> "document"]
        botTurn == [role |-> "assistant", content |-> response,
                    message_type |-> "document"]
        c2 == AddTurnTo(AddTurnTo(convs, sid, userTurn, t, m), sid, botTurn, t, m)
    IN  IF pdf /\ ing.ret.raised
        THEN \* the error of ingest_pdf leaves process_document at line 216
             [raised |-> TRUE, response |-> <<>>, sources |-> <<>>, chunks |-> 0,
              turns |-> <<>>, convs |-> convs, store |-> ing.store, rag |-> ing.ret,
              ingested |-> TRUE]
        ELSE [raised |-> FALSE, response |-> response, sources |-> <<filename>>,
              chunks |-> IF pdf THEN ing.ret.returned ELSE 0,
              turns |-> <<userTurn, botTurn>>, convs |-> c2,
              store |-> IF pdf THEN ing.store ELSE st,
              rag |-> IF pdf THEN ing.ret ELSE NoRagRet,
              ingested |-> pdf]

ProcessDocument(sid, filename, mime, pages, failAt, storeFail) ==
    /\ AddedTotal(added) < MaxAdded
    /\ \E ing \in { IngestPdfResult(store, pages, filename, failAt, storeFail) } :
       \E r \in { ProcessDocumentResult(conversations, store, sid, filename, mime, ing,
                                        now, max_history) } :
        /\ conversations' = r.convs
        /\ store' = r.store
        /\ ragRet' = IF r.ingested THEN r.rag ELSE ragRet
        /\ memRet' = IF r.raised THEN memRet
                     ELSE [NoRet EXCEPT !.op = "add_turn", !.sid = sid]
        /\ added' = IF r.raised THEN added
                    ELSE [added EXCEPT ![sid] = @ \o r.turns]
        /\ cleared' = IF r.raised THEN cleared ELSE cleared \ {sid}
        /\ docRet' = [op |-> "process_document", sid |-> sid, filename |-> filename,
                      mime_type |-> mime, raised |-> r.raised, chunks |-> r.chunks,
                      response |-> r.response, sources |-> r.sources]
        /\ UNCHANGED <<max_history, ttl_hours, now, task>>
        /\ UNCHANGED <<chatVars, hookVars, embVars, loopVars, visVars>>

DocNext ==
    \E sid \in SessionIds, filename \in DocFilenames, mime \in MimeTypes,
       pages \in PdfInputs, fault \in IngestFaults :
        ProcessDocument(sid, filename, mime, pages, fault[1], fault[2])

InitDoc == MemFixedInit /\ RagInit /\ ChatInit /\ HookFixedInit /\ ProcInit

SpecDoc == InitDoc /\ [][DocNext]_vars

-----------------------------------------------------------------------------
(* process_whatsapp_message (routes/webhook.py), the background task of one
   parsed message, one step per awaited call.  The processors are run as one
   step each: their awaited calls answer or raise, and no other task runs
   meanwhile (tasks are taken from the queue one after another). *)

\* the per-message limit of line 129 is 4000 characters; the model splits at
\* this many
SendLimit == 3

Letters == <<"a", "b", "c", "d", "e", "f", "g", "h", "i", "j", "k", "l">>

\* the texts a language or vision model may answer, by length: empty, short,
\* exactly the limit, one more, two full messages, two and a bit
ReplyLengths == {0, 1, SendLimit, SendLimit + 1, 2 * SendLimit, 2 * SendLimit + 1}
Replies == { SubSeq(Letters, 1, n) : n \in ReplyLengths }

\* lines 129-135: the bodies to send for a response text
ReplyChunks_NoSplit(text) == << text >>
ReplyChunks(text) ==
    IF Len(text) > SendLimit
    THEN [ k \in 1..((Len(text) + SendLimit - 1) \div SendLimit) |->
            SubSeq(text, (k - 1) * SendLimit + 1,
                   IF k * SendLimit < Len(text) THEN k * SendLimit ELSE Len(text)) ]
    ELSE << text >>

ApologyText == << "Sorry, I encountered an error processing your message. Please try again." >>

\* one outbound call to the messaging platform
Sent(kind, to, body, ok) == [kind |-> kind, to |-> to, body |-> body, ok |-> ok]

\* the payloads whose messages the tasks are run for: a text, a voice note, an
\* image, a PDF document, and a sticker (a text message without text)
TaskPayloads ==
    { [BasePayload EXCEPT !.mtype = t] : t \in {"text", "audio", "image", "document", "sticker"} }

\* add_turn up to line 52: the session exists afterwards
EnsureSession(convs, sid, t) ==
    IF HasSession(convs, sid) THEN convs
    ELSE Append(convs, [session_id |-> sid, turns |-> <<>>, updated_at |-> t])

Outcome(raised, response, convs, st) ==
    [raised |-> raised, response |-> response, convs |-> convs, store |-> st]

\* process_text(text, session_id) run to its end; llm is the outcome of
\* chat_completion after its retries.  A text of None fails the validation of
\* ConversationTurn inside the first add_turn.
ProcessTextResult(convs, st, sid, text, llm, t, m, ttl) ==
    LET userTurn == [role |-> "user", content |-> text, message_type |-> "text"]
        botTurn == [role |-> "assistant", content |-> llm.gen, message_type |-> "text"]
        c2 == CleanupExpired(AddTurnTo(convs, sid, userTurn, t, m), t, ttl)
    IN  IF text = << "None" >> THEN Outcome(TRUE, <<>>, EnsureSession(convs, sid, t), st)
        ELSE IF ~llm.ok THEN Outcome(TRUE, <<>>, c2, st)
        ELSE Outcome(FALSE, llm.gen, AddTurnTo(c2, sid, botTurn, t, m), st)

LlmOutcomes == { [ok |-> FALSE, gen |-> <<>>] } \cup { [ok |-> TRUE, gen |-> g] : g \in Replies }

\* what transcribe_audio returns for the voice note
Transcription == << "t" >>

\* process_voice: transcribe, then the text pipeline; line 145 prefixes the response
ProcessVoiceResults(convs, st, sid, t, m, ttl) ==
    { Outcome(TRUE, <<>>, convs, st) }
    \cup { IF r.raised THEN r
           ELSE [r EXCEPT !.response = << "Transcription: " >> \o Transcription
                                        \o << "\n\n" >> \o r.response]
           : r \in { ProcessTextResult(convs, st, sid, Transcription, llm, t, m, ttl) :
                       llm \in LlmOutcomes } }

\* process_image: vision_analysis, then the two turns (lines 180-181)
ProcessImageResults(convs, st, sid, caption, t, m) ==
    { Outcome(TRUE, <<>>, convs, st) }
    \cup { Outcome(FALSE, << "Image Analysis:\n\n" >> \o g,
                   AddTurnTo(AddTurnTo(convs, sid,
                                       [role |-> "user",
                                        content |-> << "[Image sent] ",
                                                       IF caption = "None"
                                                       THEN "Image analysis requested"
                                                       ELSE caption >>,
                                        message_type |-> "image"], t, m),
                             sid,
                             [role |-> "assistant", content |-> g,
                              message_type |-> "image"], t, m),
                   st)
           : g \in Replies }

\* lines 90-123: the processor call for the message, with every outcome its
\* awaited calls allow
ProcessorResults(msg, convs, st, t, m, ttl) ==
    LET sid == msg.from_number
    IN  IF msg.message_type = "text"
        THEN { ProcessTextResult(convs, st, sid, << msg.text >>, llm, t, m, ttl) :
                 llm \in LlmOutcomes }
        ELSE IF msg.message_type = "voice"
        THEN ProcessVoiceResults(convs, st, sid, t, m, ttl)
        ELSE IF msg.message_type = "image"
        THEN ProcessImageResults(convs, st, sid, msg.caption, t, m)
        ELSE LET filename == IF msg.caption = "None" THEN "document.pdf" ELSE msg.caption
             IN  { Outcome(r.raised, r.response, r.convs, r.store) :
                     r \in { ProcessDocumentResult(convs, st, sid, filename,
                                                   msg.mime_type, ing, t, m) :
                               ing \in { IngestPdfResult(st, pages, filename, f[1], f[2]) :
                                           pages \in PdfInputs, f \in IngestFaults } } }

\* lines 147-153: except Exception -- the failure is logged and the apology follows
OnFailure_Escapes(t, where) ==
    [t EXCEPT !.pc = "finished", !.failed_at = where, !.escaped = TRUE]
OnFailure(t, where) == [t EXCEPT !.pc = "apology", !.failed_at = where]

\* the framework starts the next scheduled task; lines 78-80
TaskStart ==
    /\ task.pc \in {"idle", "finished"}
    /\ bgTasks # <<>>
    /\ task' = [IdleTask EXCEPT !.pc = "mark_read", !.msg = Head(bgTasks)]
    /\ bgTasks' = Tail(bgTasks)
    /\ UNCHANGED <<verify_token, hookRet, docRet>>
    /\ UNCHANGED <<memVars, ragVars, chatVars, embVars, loopVars, visVars>>

\* line 84: mark_as_read swallows its own failure
TaskMarkRead(ok) ==
    /\ task.pc = "mark_read"
    /\ task' = [task EXCEPT !.pc = "reaction"]
    /\ UNCHANGED <<hookVars, docRet>>
    /\ UNCHANGED <<memVars, ragVars, chatVars, embVars, loopVars, visVars>>

\* line 87: the "processing" reaction
TaskReaction(ok) ==
    /\ task.pc = "reaction"
    /\ LET t1 == [task EXCEPT !.sent = Append(@, Sent("reaction", task.msg.from_number,
                                                       << "hourglass" >>, ok))]
       IN  task' = IF ~ok THEN OnFailure(t1, "reaction")
                   ELSE [t1 EXCEPT !.pc = IF task.msg.message_type = "text"
                                          THEN "process" ELSE "download"]
    /\ UNCHANGED <<hookVars, docRet>>
    /\ UNCHANGED <<memVars, ragVars, chatVars, embVars, loopVars, visVars>>

\* lines 97, 105, 114: download_media
TaskDownload(ok) ==
    /\ task.pc = "download"
    /\ task' = IF ok THEN [task EXCEPT !.pc = "process"] ELSE OnFailure(task, "download")
    /\ UNCHANGED <<hookVars, docRet>>
    /\ UNCHANGED <<memVars, ragVars, chatVars, embVars, loopVars, visVars>>

\* lines 90-123: the processor returns a result or raises
TaskProcess ==
    /\ task.pc = "process"
    /\ \E r \in ProcessorResults(task.msg, conversations, store, now, max_history, ttl_hours) :
        /\ conversations' = r.convs
        /\ store' = r.store
        /\ task' = IF r.raised THEN OnFailure(task, "processor")
                   ELSE [task EXCEPT !.pc = "reply", !.reply = r.response]
    /\ UNCHANGED <<max_history, ttl_hours, now, memRet, added, cleared, ragRet>>
    /\ UNCHANGED <<chatVars, hookVars, docRet, embVars, loopVars, visVars>>

\* lines 126-135: the next body of the response is sent
TaskSendChunk(ok) ==
    /\ task.pc = "reply"
    /\ LET chunks == ReplyChunks(task.reply)
           t1 == [task EXCEPT !.sent = Append(@, Sent("text", task.msg.from_number,
                                                       chunks[task.nsent + 1], ok)),
                              !.nsent = @ + 1]
       IN  task' = IF ~ok THEN OnFailure(t1, "reply_send")
                   ELSE IF task.nsent + 1 = Len(chunks)
                   THEN [t1 EXCEPT !.pc = "done_reaction"]
                   ELSE t1
    /\ UNCHANGED <<hookVars, docRet>>
    /\ UNCHANGED <<memVars, ragVars, chatVars, embVars, loopVars, visVars>>

\* line 138: the "done" reaction
TaskDoneReaction(ok) ==
    /\ task.pc = "done_reaction"
    /\ LET t1 == [task EXCEPT !.sent = Append(@, Sent("reaction", task.msg.from_number,
                                                       << "check" >>, ok))]
       IN  task' = IF ok THEN [t1 EXCEPT !.pc = "finished"]
                   ELSE OnFailure(t1, "done_reaction")
    /\ UNCHANGED <<hookVars, docRet>>
    /\ UNCHANGED <<memVars, ragVars, chatVars, embVars, loopVars, visVars>>

\* lines 155-159 and 161-162: the apology; its failure is passed over
TaskApology(ok) ==
    /\ task.pc = "apology"
    /\ task' = [task EXCEPT !.sent = Append(@, Sent("text", task.msg.from_number,
                                                    ApologyText, ok)),
                            !.pc = IF ok THEN "apology_reaction" ELSE "finished"]
    /\ UNCHANGED <<hookVars, docRet>>
    /\ UNCHANGED <<memVars, ragVars, chatVars, embVars, loopVars, visVars>>

\* lines 160-162: the "error" reaction; its failure is passed over
TaskApologyReaction(ok) ==
    /\ task.pc = "apology_reaction"
    /\ task' = [task EXCEPT !.sent = Append(@, Sent("reaction", task.msg.from_number,
                                                    << "cross" >>, ok)),
                            !.pc = "finished"]
    /\ UNCHANGED <<hookVars, docRet>>
    /\ UNCHANGED <<memVars, ragVars, chatVars, embVars, loopVars, visVars>>

TaskNext ==
    \/ TaskStart
    \/ \E ok \in BOOLEAN : TaskMarkRead(ok)
    \/ \E ok \in BOOLEAN : TaskReaction(ok)
    \/ \E ok \in BOOLEAN : TaskDownload(ok)
    \/ TaskProcess
    \/ \E ok \in BOOLEAN : TaskSendChunk(ok)
    \/ \E ok \in BOOLEAN : TaskDoneReaction(ok)
    \/ \E ok \in BOOLEAN : TaskApology(ok)
    \/ \E ok \in BOOLEAN : TaskApologyReaction(ok)

\* the response of receive_webhook to a payload that holds a message
ReceivedRet(p) ==
    [NoHookRet EXCEPT !.op = "receive", !.payload = PayloadKind(p), !.http = 200,
                      !.status = "received", !.message_id = ParsedMessage(p).message_id,
                      !.has_message_id = TRUE, !.scheduled = 1]

\* one or two messages have been received and their tasks scheduled
InitTask ==
    /\ MemFixedInit /\ RagInit /\ ChatInit /\ ProcInit
    /\ verify_token = "secret"
    /\ \E n \in 1..MaxBgTasks : \E ps \in [1..n -> TaskPayloads] :
          /\ bgTasks = [ i \in 1..n |-> ParsedMessage(ps[i]) ]
          /\ hookRet = ReceivedRet(ps[n])

SpecTask == InitTask /\ [][TaskNext]_vars

\* document messages: a PDF or a plain-text file, sent without a caption
\* (doc.get("caption") is None) or with one
DocPayloads ==
    { [BasePayload EXCEPT !.mtype = "document", !.mime = m, !.caption = c] :
        m \in {"application/pdf", "text/plain"}, c \in {"None", "notes.txt", "notes.pdf"} }

\* one or two document messages have been received and their tasks scheduled
InitDocTask ==
    /\ MemFixedInit /\ RagInit /\ ChatInit /\ ProcInit
    /\ verify_token = "secret"
    /\ \E n \in 1..MaxBgTasks : \E ps \in [1..n -> DocPayloads] :
          /\ bgTasks = [ i \in 1..n |-> ParsedMessage(ps[i]) ]
          /\ hookRet = ReceivedRet(ps[n])

SpecDocTask == InitDocTask /\ [][TaskNext]_vars

-----------------------------------------------------------------------------
(* The two embedding normalizers on every shape of feature_extraction result:
   HFEmbeddings._normalize (rag_engine.py, modelled by Normalize above) and
   HFService._normalize_embedding (hf_service.py) *)

\* the widest row and the most rows tried
MaxDim == 2
MaxTokens == 2

EmbValues == {1, 2}

\* rows of 0..MaxDim numbers
EmbRows == UNION { [1..d -> EmbValues] : d \in 0..MaxDim }

\* rank-2 arrays of 0..MaxTokens rows, of equal width or not
EmbArrays == UNION { [1..t -> EmbRows] : t \in 0..MaxTokens }

\* what may follow the first element of a batch
OtherSlices == { << <<2, 2>> >>, << <<1>>, <<2>> >>, << >> }

\* rank-3 results: one array, or an array followed by another
EmbBatches ==
    { << a >> : a \in EmbArrays } \cup { << a, b >> : a \in EmbArrays, b \in OtherSlices }

EmbInputs ==
    { [rank |-> 0, v |-> x] : x \in EmbValues }
    \cup { [rank |-> 1, v |-> r] : r \in EmbRows }
    \cup { [rank |-> 2, v |-> a] : a \in EmbArrays \ {<<>>} }
    \cup { [rank |-> 3, v |-> b] : b \in EmbBatches }

\* lines 212-214: `result = result[0]` when result[0] is a non-empty list whose
\* first element is a list
Unbatch_TakeLast(result) ==
    IF result.rank >= 3 /\ Len(result.v[1]) > 0
    THEN [rank |-> result.rank - 1, v |-> result.v[Len(result.v)]]
    ELSE result
Unbatch(result) ==
    IF result.rank >= 3 /\ Len(result.v[1]) > 0
    THEN [rank |-> result.rank - 1, v |-> result.v[1]]
    ELSE result

\* lines 216-223: the mean over the token rows, dimension by dimension
MeanPoolRows_NoDivision(rows) ==
    [raised |-> FALSE,
     vec |-> [ d \in 1..Len(rows[1]) |-> [num |-> SumColumn(rows, d, 1), den |-> 1] ]]
MeanPoolRows(rows) == MeanPool(rows)

\* HFService._normalize_embedding
NormalizeEmbedding(result) ==
    IF result.rank = 0 THEN [raised |-> FALSE, vec |-> <<Float(result.v)>>]
    ELSE IF Len(result.v) = 0 THEN [raised |-> FALSE, vec |-> <<>>]
    ELSE IF Unbatch(result).rank >= 2 THEN MeanPoolRows(Unbatch(result).v)
    ELSE [raised |-> FALSE,
          vec |-> [ i \in 1..Len(result.v) |-> Float(result.v[i]) ]]

\* both normalizers are applied to the result
NormalizeResult ==
    /\ ~embRet.done
    /\ embRet' = [embRet EXCEPT !.done = TRUE,
                                !.rag = Normalize(embRet.input),
                                !.hf = NormalizeEmbedding(embRet.input)]
    /\ UNCHANGED notEmb

EmbNext == NormalizeResult

InitEmb ==
    /\ MemFixedInit /\ RagInit /\ ChatInit /\ HookFixedInit
    /\ docRet = NoDocRet /\ task = IdleTask /\ loop = IdleLoop
    /\ vis = [ r \in ImageRequests |-> IdleVision ]
    /\ \E x \in EmbInputs : embRet = [NoEmbRet EXCEPT !.input = x]

SpecEmb == InitEmb /\ [][EmbNext]_vars

-----------------------------------------------------------------------------
(* Claims about MemoryService, checked under SpecMem *)

RecordOf(convs, sid) == convs[IndexOf(convs, sid)]

\* the last write of the record is older than the TTL at hour t
OlderThanTtl(conv, t) == t - conv.updated_at > ttl_hours

LastWritten(log, m) == SubSeq(log, Len(log) - m + 1, Len(log))

\* C1: with a configured maximum M >= 1, every stored session's turn sequence
\* has at most M turns in every state reachable between MemoryService calls.
C1_HistoryNeverExceedsMax ==
    max_history >= 1 =>
        \A i \in 1..Len(conversations) : Len(conversations[i].turns) <= max_history

\* a session that received more than M turns and was trimmed to exactly M
C1_Witness ==
    /\ max_history >= 1
    /\ \E i \in 1..Len(conversations) :
          /\ Len(added[conversations[i].session_id]) > max_history
          /\ Len(conversations[i].turns) = max_history

\* C2: after N > M add_turn calls on a session (M >= 1, no expiry or clear in
\* between) the stored history, and what get_history returns, is exactly the
\* M most recently added turns in the order they were added.
C2_KeepsMostRecentInOrder ==
    max_history >= 1 =>
        \A i \in 1..Len(conversations) :
            LET c == conversations[i]
                log == added[c.session_id]
            IN  Len(log) > max_history =>
                  /\ c.turns = LastWritten(log, max_history)
                  /\ (memRet.op = "get_history" /\ memRet.sid = c.session_id
                        => memRet.history = LastWritten(log, max_history))

\* get_history returned a trimmed history whose dropped turn differs from a kept one
C2_Witness ==
    /\ max_history >= 1
    /\ memRet.op = "get_history"
    /\ Len(added[memRet.sid]) > max_history
    /\ Len(memRet.history) = max_history
    /\ added[memRet.sid][1] # memRet.history[1]

\* C3: a get_history, get_chat_messages or get_active_sessions call removes
\* every session whose last write is older than the TTL (it is then absent
\* from the returned session list and its history reads as empty) and removes
\* no session whose last write is not older than the TTL.
C3_SweepRemovesExactlyExpired ==
    [][ memRet'.op \in {"get_history", "get_chat_messages", "get_active_sessions"} =>
          \A i \in 1..Len(conversations) :
              LET c == conversations[i] IN
              IF OlderThanTtl(c, now)
              THEN /\ ~HasSession(conversations', c.session_id)
                   /\ memRet'.op = "get_active_sessions"
                         => c.session_id \notin Range(memRet'.sessions)
                   /\ memRet'.op = "get_history" /\ memRet'.sid = c.session_id
                         => memRet'.history = <<>>
                   /\ memRet'.op = "get_chat_messages" /\ memRet'.sid = c.session_id
                         => memRet'.messages = <<>>
              ELSE /\ HasSession(conversations', c.session_id)
                   /\ RecordOf(conversations', c.session_id) = c
                   /\ memRet'.op = "get_active_sessions"
                         => c.session_id \in Range(memRet'.sessions)
                   /\ memRet'.op = "get_history" /\ memRet'.sid = c.session_id
                         => memRet'.history = c.turns
      ]_vars

\* a read of one session swept another, expired one and kept a live one
C3_Witness ==
    /\ memRet.op = "get_history"
    /\ memRet.swept # {}
    /\ memRet.sid \notin memRet.swept
    /\ memRet.history # <<>>

\* C4: clear_session(s) answers not_found and changes nothing when s has no
\* record, and answers cleared when it has one; from then until the next
\* add_turn on s its history reads as empty and s is not listed as active;
\* the clear changes no other session's record.
C4_ClearSession ==
    [][ /\ memRet'.op = "clear_session" =>
            LET s == memRet'.sid
                found == HasSession(conversations, s)
            IN  /\ memRet'.status = IF found THEN "cleared" ELSE "not_found"
                /\ ~found => conversations' = conversations
                /\ ~HasSession(conversations', s)
                /\ \A i \in 1..Len(conversations) :
                      conversations[i].session_id # s =>
                          /\ HasSession(conversations', conversations[i].session_id)
                          /\ RecordOf(conversations', conversations[i].session_id)
                                = conversations[i]
        /\ \A s \in cleared' :
              /\ ~HasSession(conversations', s)
              /\ memRet'.op = "get_history" /\ memRet'.sid = s => memRet'.history = <<>>
              /\ memRet'.op = "get_active_sessions" => s \notin Range(memRet'.sessions)
      ]_vars

\* a session was cleared while another one was stored, and is then read
C4_Witness ==
    /\ memRet.op = "get_history"
    /\ memRet.sid \in cleared
    /\ conversations # <<>>

-----------------------------------------------------------------------------
(* Claims about RAGEngine, checked under SpecRag *)

IsBlank(t) == \A i \in 1..Len(t) : IsSpace(t[i])

IsIngest(r) == r.op \in {"ingest_document", "ingest_pdf"}

\* C5: retrieve_context never raises; when the collection has no matching
\* chunk, or the collection lookup, the query embedding or the search fails,
\* it returns the empty context and the empty source list.
C5_RetrieveNeverRaises ==
    ragRet.op = "retrieve_context" =>
        /\ ~ragRet.raised
        /\ (ragRet.fail # "none" \/ ragRet.results = <<>>)
              => (ragRet.context = <<>> /\ ragRet.sources = <<>>)

\* the search failed against a collection that holds chunks
C5_Witness ==
    /\ ragRet.op = "retrieve_context"
    /\ ragRet.fail = "query"
    /\ DOMAIN store # {}

\* C7: ingesting empty or whitespace-only content returns 0 chunks, makes no
\* embedding call and no vector-store call, and leaves the store unchanged.
C7_BlankContentIsNoOp ==
    [][ (IsIngest(ragRet') /\ IsBlank(ragRet'.content)) =>
            /\ ragRet'.returned = 0
            /\ ~ragRet'.raised
            /\ ragRet'.embedCalls = <<>>
            /\ ragRet'.storeOps = <<>>
            /\ store' = store
      ]_vars

\* whitespace-only (non-empty) content was ingested into a populated store
C7_Witness ==
    /\ ragRet.op = "ingest_document"
    /\ ragRet.content # <<>>
    /\ IsBlank(ragRet.content)
    /\ DOMAIN store # {}

\* C8: a successful ingestion of content that splits into n >= 1 chunks issues
\* exactly one upsert whose i-th entry (i = 0..n-1) has the id
\* (hash(filename)[:8], i), the i-th chunk text, the embedding of the i-th
\* chunk text and the metadata source = filename, chunk_index = i,
\* total_chunks = n; the store then holds these entries and the call returns n.
C8_OneOrderedUpsert ==
    LET chunks == SplitText(ragRet.content)
        n == Len(chunks)
    IN  (IsIngest(ragRet) /\ ~ragRet.raised /\ n >= 1) =>
            /\ ragRet.returned = n
            /\ Cardinality({ k \in 1..Len(ragRet.storeOps) : ragRet.storeOps[k] = "upsert" }) = 1
            /\ Len(ragRet.batch) = n
            /\ \A i \in 0..(n - 1) :
                  LET e == ragRet.batch[i + 1] IN
                  /\ e.id = <<DocHash(ragRet.filename), i>>
                  /\ e.document = chunks[i + 1]
                  /\ e.embedding = Normalize(FeatureExtraction(chunks[i + 1])).vec
                  /\ e.metadata.source = ragRet.filename
                  /\ e.metadata.chunk_index = i
                  /\ e.metadata.total_chunks = n
                  /\ e.id \in DOMAIN store
                  /\ store[e.id] = [document |-> e.document, embedding |-> e.embedding,
                                    metadata |-> e.metadata]

\* a document was ingested as two chunks with different texts
C8_Witness ==
    /\ ragRet.op = "ingest_document"
    /\ ~ragRet.raised
    /\ ragRet.returned = 2
    /\ ragRet.batch[1].document # ragRet.batch[2].document
    /\ ragRet.batch[1].embedding # ragRet.batch[2].embedding

-----------------------------------------------------------------------------
(* Claims about process_text, checked under SpecChat *)

\* the last turn stored for session sid, or a turn of no role when there is none
LastTurnOf(convs, sid) ==
    IF HistoryOf(convs, sid) = <<>>
    THEN [role |-> "none", content |-> <<>>, message_type |-> "none"]
    ELSE HistoryOf(convs, sid)[Len(HistoryOf(convs, sid))]

\* the request's retrieval failed (the collection was unreachable, the
\* embedding of the query failed, ...)
RetrievalFailed(q) == q.pc # "idle" /\ q.use_rag /\ q.rfail # "none"

\* C6: a retrieval outage never blocks process_text.  Whenever the retrieval
\* of a request has failed, the language model is still called, the last
\* message it is sent is the un-augmented message text, the request carries no
\* sources; the request fails only when the language model itself has failed
\* its last attempt; and at the step where the model answers, the assistant
\* turn becomes the session's last stored turn and the response is returned
\* (200) with that answer and an empty source list.
C6_OutageNeverBlocksChat ==
    [][ \A r \in Requests :
          RetrievalFailed(req'[r]) =>
            /\ req'[r].attempts >= 1
            /\ req'[r].messages # <<>>
            /\ req'[r].messages[Len(req'[r].messages)] =
                  [role |-> "user", content |-> req'[r].text]
            /\ req'[r].sources = <<>>
            /\ req'[r].pc = "failed" => req'[r].attempts = MaxAttempts
            /\ (req[r].pc = "awaiting_llm" /\ req'[r].pc = "done") =>
                  /\ LastTurnOf(conversations', req'[r].sid) =
                        [role |-> "assistant", content |-> req'[r].response,
                         message_type |-> "text"]
                  /\ req'[r].http = 200
                  /\ req'[r].out_sources = <<>>
      ]_vars

\* C6 witness: against a collection that holds chunks, a request whose
\* retrieval failed has been answered by the model and returned
C6_Witness ==
    \E r \in Requests :
        /\ DOMAIN store # {}
        /\ RetrievalFailed(req[r])
        /\ req[r].pc = "done"
        /\ req[r].http = 200
        /\ req[r].response \in Responses

-----------------------------------------------------------------------------
(* Claims about the webhook routes, checked under SpecHook *)

\* C9: GET /api/v1/webhook/whatsapp answers 200 with the challenge as body
\* exactly when hub.mode is "subscribe" and hub.verify_token equals the
\* configured secret (missing parameters read as ""), and 403 otherwise.
C9_VerifyExactlyWhenModeAndToken ==
    hookRet.op = "verify" =>
        IF hookRet.mode = "subscribe" /\ hookRet.token = verify_token
        THEN hookRet.http = 200 /\ hookRet.body = hookRet.challenge
        ELSE hookRet.http = 403

\* C10: POST /api/v1/webhook/whatsapp answers every JSON payload with success:
\* status "ok" and no background task when no user message was parsed, or
\* status "received" with the message id and exactly one background task; it
\* never answers with an error.
C10_ReceiveAlwaysAcknowledges ==
    hookRet.op = "receive" =>
        /\ hookRet.http = 200
        /\ \/ hookRet.status = "ok" /\ hookRet.scheduled = 0 /\ ~hookRet.has_message_id
           \/ hookRet.status = "received" /\ hookRet.scheduled = 1 /\ hookRet.has_message_id

-----------------------------------------------------------------------------
(* Claims about process_document, checked under SpecDoc *)

\* C16: every process_document call records its two memory turns, for a PDF
\* and for an unsupported type alike and whether or not the ingestion
\* succeeds: after the call the session history ends with the user turn
\* "[Document sent: <filename>]" followed by the assistant turn holding the
\* returned response text.
C16_DocumentTurnsAlwaysRecorded ==
    docRet.op = "process_document" =>
        LET h == HistoryOf(conversations, docRet.sid)
        IN  /\ Len(h) >= 2
            /\ h[Len(h) - 1] = [role |-> "user", content |-> DocSentText(docRet.filename),
                                message_type |-> "document"]
            /\ h[Len(h)] = [role |-> "assistant", content |-> docRet.response,
                            message_type |-> "document"]

-----------------------------------------------------------------------------
(* Claims about the background task, checked under SpecTask *)

\* the positions of the apology among the task's outbound calls
ApologySends(t) ==
    { i \in 1..Len(t.sent) : t.sent[i].kind = "text" /\ t.sent[i].body = ApologyText }

\* the bodies of the response sends of the task, in send order
ReplyBodies(t) ==
    LET IsReply(e) == e.kind = "text" /\ e.body # ApologyText
        sends == SelectSeq(t.sent, IsReply)
    IN  [ i \in 1..Len(sends) |-> sends[i].body ]

RECURSIVE Concat(_)
Concat(parts) == IF parts = <<>> THEN <<>> ELSE Head(parts) \o Concat(Tail(parts))

IsPrefix(a, b) == Len(a) <= Len(b) /\ SubSeq(b, 1, Len(a)) = a

\* every response body has been sent successfully
ReplyComplete(t) ==
    /\ t.pc \in {"done_reaction", "apology", "apology_reaction", "finished"}
    /\ t.failed_at \in {"none", "done_reaction"}
    /\ t.pc = "finished" => t.sent # <<>>

C12_ReplySplitPreservesText ==
    LET bodies == ReplyBodies(task)
        L == Len(task.reply)
    IN  /\ \A i \in 1..Len(bodies) : Len(bodies[i]) <= SendLimit
        /\ IsPrefix(Concat(bodies), task.reply)
        /\ ReplyComplete(task) =>
            /\ Concat(bodies) = task.reply
            /\ Len(bodies) = IF L <= SendLimit THEN 1
                             ELSE (L + SendLimit - 1) \div SendLimit

\* C12 witness: a response of two full bodies and a remainder went out in
\* three sends
C12_Witness ==
    /\ task.pc = "done_reaction"
    /\ Len(task.reply) = 2 * SendLimit + 1
    /\ Len(ReplyBodies(task)) = 3
    /\ ReplyBodies(task)[3] = << task.reply[Len(task.reply)] >>

-----------------------------------------------------------------------------
(* Claims about the embedding normalizers, checked under SpecEmb *)

\* the total of column d over the first t rows
RECURSIVE ColTotal(_, _, _)
ColTotal(rows, d, t) == IF t = 0 THEN 0 ELSE ColTotal(rows, d, t - 1) + rows[t][d]

\* a rank-2 array of T >= 1 rows that all have the width of the first
IsMatrix(a) == Len(a) >= 1 /\ \A t \in 1..Len(a) : Len(a[t]) = Len(a[1])

\* the mean of every column of a matrix
ColumnMeans(a) ==
    [raised |-> FALSE,
     vec |-> [ d \in 1..Len(a[1]) |-> [num |-> ColTotal(a, d, Len(a)), den |-> Len(a)] ]]

\* C13: for a rank-2 input of T >= 1 rows of width D, both normalizers return
\* exactly D elements, the d-th being the sum of element d over the T rows
\* divided by T.
C13_Rank2IsColumnMean ==
    (embRet.done /\ embRet.input.rank = 2 /\ IsMatrix(embRet.input.v)) =>
        /\ embRet.rag = ColumnMeans(embRet.input.v)
        /\ embRet.hf = ColumnMeans(embRet.input.v)
        /\ Len(embRet.hf.vec) = Len(embRet.input.v[1])

\* C13 witness: two rows of width two with different entries were pooled
C13_Witness ==
    /\ embRet.done
    /\ embRet.input = [rank |-> 2, v |-> << <<1, 2>>, <<2, 2>> >>]
    /\ embRet.hf.vec = << [num |-> 3, den |-> 2], [num |-> 4, den |-> 2] >>
    /\ embRet.rag.vec = embRet.hf.vec

\* C14: for a rank-3 input B (a non-empty batch of rank-2 arrays) each
\* normalizer returns what it returns for B[0] alone, raising exactly when it
\* raises for B[0]; the other elements of the batch have no influence.
C14_Rank3IsFirstSlice ==
    (embRet.done /\ embRet.input.rank = 3) =>
        /\ embRet.rag = Normalize([rank |-> 2, v |-> embRet.input.v[1]])
        /\ embRet.hf = NormalizeEmbedding([rank |-> 2, v |-> embRet.input.v[1]])

\* C14 witness: a batch whose second element differs from its first was
\* normalized to the column means of the first
C14_Witness ==
    /\ embRet.done
    /\ embRet.input = [rank |-> 3, v |-> << << <<1, 2>>, <<1, 1>> >>, << <<2, 2>> >> >>]
    /\ embRet.hf = ColumnMeans(<< <<1, 2>>, <<1, 1>> >>)
    /\ embRet.rag = embRet.hf

-----------------------------------------------------------------------------
(* Further claims about the RAGEngine, checked under SpecRag *)

\* the elements of a sequence in the order of their first appearance
RECURSIVE FirstAppearances(_, _)
FirstAppearances(xs, seen) ==
    IF xs = <<>> THEN <<>>
    ELSE IF Head(xs) \in seen THEN FirstAppearances(Tail(xs), seen)
    ELSE <<Head(xs)>> \o FirstAppearances(Tail(xs), seen \cup {Head(xs)})

\* C15: when retrieval returns at least one chunk, the source list holds each
\* distinct `source` of the retrieved chunks once, in the order of first
\* appearance among the ranked results, and the context is the chunk texts in
\* ranked order joined by the separator.
C15_SourcesInFirstAppearanceOrder ==
    (ragRet.op = "retrieve_context" /\ ragRet.results # <<>>) =>
        LET ranked == ragRet.results
        IN  /\ ragRet.sources =
                  FirstAppearances([ i \in 1..Len(ranked) |-> store[ranked[i]].metadata.source ],
                                   {})
            /\ ragRet.context =
                  Join([ i \in 1..Len(ranked) |-> store[ranked[i]].document ],
                       ContextSeparator)

-----------------------------------------------------------------------------
(* Further claims about process_text, checked under SpecChat *)

\* C17: one chat_completion call makes at most MaxAttempts attempts and
\* returns the answer of the first attempt that succeeds, making no attempt
\* after it; a failed attempt is followed by another only while fewer than
\* MaxAttempts were made; when the last attempt fails the error reaches the
\* /api/v1/chat handler, which answers 500, and nothing more is attempted for
\* the request.
C17_AtMostThreeAttempts ==
    [][ \A r \in Requests :
          /\ req'[r].attempts <= MaxAttempts
          /\ (req[r].pc = "awaiting_llm" /\ req'[r].pc = "done") =>
                /\ req'[r].attempts = req[r].attempts
                /\ req'[r].http = 200
                /\ req'[r].response \in Responses
          /\ (req[r].pc = "awaiting_llm" /\ req'[r].pc = "awaiting_llm"
              /\ req'[r] # req[r]) =>
                /\ req[r].attempts < MaxAttempts
                /\ req'[r] = [req[r] EXCEPT !.attempts = @ + 1]
          /\ (req[r].pc = "awaiting_llm" /\ req'[r].pc = "failed") =>
                /\ req[r].attempts = MaxAttempts
                /\ req'[r] = [req[r] EXCEPT !.pc = "failed", !.http = 500]
          /\ req[r].pc \in {"done", "failed"} => req'[r] = req[r]
      ]_vars

\* C17 witness: the language model failed three times for a request whose
\* messages had been sent, and the handler answered 500
C17_Witness ==
    \E r \in Requests :
        /\ req[r].pc = "failed"
        /\ req[r].attempts = MaxAttempts
        /\ req[r].messages # <<>>
        /\ req[r].http = 500

-----------------------------------------------------------------------------
(* MultiModalProcessor.process_image (processor.py 149-192) over
   HFService.vision_analysis and chat_completion (hf_service.py 38-138): both
   carry @retry(stop=stop_after_attempt(3)), and chat_completion is called
   from inside vision_analysis *)

\* the caption of the image message: none, or a question of the user's
ImageCaptions == {"None", "what is it?"}

\* line 170: prompt = caption or the default prompt; lines 115-120: the default
\* prompts need no language-model stage
IsDefaultPrompt(caption) == caption = "None"

\* what the captioning model says of the image
Description == << "a cat" >>

\* line 137: the description followed by the language model's answer
EnhancedAnalysis(enhanced) ==
    << "**Image Description:** " >> \o Description \o << "\n\n**Analysis:** " >> \o enhanced

\* an attempt of vision_analysis raised (its image_to_text request failed, or
\* chat_completion gave up): the retry of line 77 runs the whole function
\* again, the captioning request first, while fewer than three attempts were
\* made; after the third the error leaves process_image
VisionAttemptFailed(v) ==
    IF MayRetry(v.vattempts)
    THEN [v EXCEPT !.pc = "awaiting_caption", !.vattempts = @ + 1,
                   !.captions = @ + 1, !.attempts = 0]
    ELSE [v EXCEPT !.pc = "failed"]

\* process_image is called: vision_analysis sends its image_to_text request
ImageStart(r, sid, caption) ==
    /\ vis[r].pc = "idle"
    /\ vis' = [vis EXCEPT ![r] = [IdleVision EXCEPT !.pc = "awaiting_caption", !.sid = sid,
                                                    !.caption = caption,
                                                    !.vattempts = 1, !.captions = 1]]
    /\ UNCHANGED <<memVars, notVis>>

\* lines 180-181: vision_analysis returned; process_image records the two turns
ImageDone(r, analysis) ==
    LET v == vis[r]
        userTurn == [role |-> "user",
                     content |-> << "[Image sent] ",
                                    IF v.caption = "None" THEN "Image analysis requested"
                                    ELSE v.caption >>,
                     message_type |-> "image"]
        botTurn == [role |-> "assistant", content |-> analysis, message_type |-> "image"]
    IN  /\ vis' = [vis EXCEPT ![r].pc = "done", ![r].analysis = analysis]
        /\ conversations' = AddTurnTo(AddTurnTo(conversations, v.sid, userTurn, now,
                                                max_history),
                                      v.sid, botTurn, now, max_history)
        /\ added' = [added EXCEPT ![v.sid] = @ \o <<userTurn, botTurn>>]
        /\ cleared' = cleared \ {v.sid}
        /\ memRet' = [NoRet EXCEPT !.op = "add_turn", !.sid = v.sid]
        /\ UNCHANGED <<max_history, ttl_hours, now, notVis>>

\* the image_to_text request answers: a default prompt ends the analysis
\* here, a question goes on to chat_completion (attempt 1)
CaptionReply(r) ==
    /\ vis[r].pc = "awaiting_caption"
    /\ IF IsDefaultPrompt(vis[r].caption)
       THEN ImageDone(r, Description)
       ELSE /\ vis' = [vis EXCEPT ![r].pc = "awaiting_llm", ![r].attempts = 1,
                                  ![r].llm_requests = @ + 1]
            /\ UNCHANGED <<memVars, notVis>>

\* the image_to_text request fails
CaptionFail(r) ==
    /\ vis[r].pc = "awaiting_caption"
    /\ vis' = [vis EXCEPT ![r] = VisionAttemptFailed(vis[r])]
    /\ UNCHANGED <<memVars, notVis>>

\* the language-model request answers
VisionLlmReply(r, enhanced) ==
    /\ vis[r].pc = "awaiting_llm"
    /\ ImageDone(r, EnhancedAnalysis(enhanced))

\* the language-model request fails: chat_completion retries while fewer than
\* three attempts were made, then raises inside vision_analysis
VisionLlmFail(r) ==
    /\ vis[r].pc = "awaiting_llm"
    /\ vis' = [vis EXCEPT ![r] =
                 IF MayRetry(vis[r].attempts)
                 THEN [vis[r] EXCEPT !.attempts = @ + 1, !.llm_requests = @ + 1]
                 ELSE VisionAttemptFailed(vis[r])]
    /\ UNCHANGED <<memVars, notVis>>

VisionNext ==
    \/ \E r \in ImageRequests, sid \in SessionIds, caption \in ImageCaptions :
          ImageStart(r, sid, caption)
    \/ \E r \in ImageRequests : CaptionReply(r)
    \/ \E r \in ImageRequests : CaptionFail(r)
    \/ \E r \in ImageRequests, enhanced \in Responses : VisionLlmReply(r, enhanced)
    \/ \E r \in ImageRequests : VisionLlmFail(r)

InitVision == MemFixedInit /\ RagInit /\ ChatInit /\ HookFixedInit /\ ProcInit

SpecVision == InitVision /\ [][VisionNext]_vars

-----------------------------------------------------------------------------
(* The event loop: every route and the webhook's background task are
   `async def` coroutines on one asyncio loop (one thread). A coroutine gives
   the thread up only at an `await` of a real asynchronous operation; a
   synchronous call made inside a coroutine keeps the thread until it returns. *)

\* the requests followed: a chat message with and without retrieval, and a
\* PDF document of two chunks
RequestKinds == {"chat_rag", "chat", "document"}

\* chat_completion: `await self.client.chat_completion(...)` on an
\* AsyncInferenceClient (hf_service.py 32, 69)
LlmCall == [service |-> "language_model", awaited |-> TRUE]
\* embed_query / embed_documents: `self.client.feature_extraction(...)` on the
\* synchronous InferenceClient, not awaited (rag_engine.py 31, 38, 47)
EmbeddingCall == [service |-> "embedding", awaited |-> FALSE]
\* get_or_create_collection, query, upsert on chromadb.HttpClient: synchronous,
\* not awaited (rag_engine.py 94, 126, 190, 242)
VectorStoreCall == [service |-> "vector_store", awaited |-> FALSE]

\* retrieve_context (lines 236-246): the collection, embed_query, collection.query
RetrieveCalls == << VectorStoreCall, EmbeddingCall, VectorStoreCall >>

\* ingest_document (lines 176-195): embed_documents calls feature_extraction
\* once per chunk, then the collection and collection.upsert
IngestCalls == << EmbeddingCall, EmbeddingCall, VectorStoreCall, VectorStoreCall >>

\* the external calls a request makes, in program order
ExternalCalls(kind) ==
    IF kind = "chat_rag" THEN RetrieveCalls \o << LlmCall >>
    ELSE IF kind = "chat" THEN << LlmCall >>
    ELSE IF kind = "document" THEN IngestCalls
    ELSE << >>

\* the call coroutine t is in, when it is in one
CurrentCall(t) == ExternalCalls(loop[t].kind)[loop[t].returned + 1]

\* a synchronous call is in progress: the loop's thread is inside it
LoopBlocked == \E t \in LoopTasks : loop[t].pc = "blocked"

\* coroutine t runs, with n of its calls returned, until it ends or makes its
\* next call: an awaited call suspends it, a synchronous one keeps the thread
RunToNextCall(t, n) ==
    LET calls == ExternalCalls(loop[t].kind)
    IN  [loop[t] EXCEPT !.returned = n,
                        !.pc = IF n = Len(calls) THEN "done"
                               ELSE IF calls[n + 1].awaited THEN "awaiting"
                               ELSE "blocked"]

\* a request arrives and its coroutine is scheduled
Arrive(t, kind) ==
    /\ loop[t].pc = "idle"
    /\ loop' = [loop EXCEPT ![t] = [pc |-> "ready", kind |-> kind, returned |-> 0]]
    /\ UNCHANGED notLoop

\* the loop runs a ready coroutine: possible only when the thread is not
\* inside a synchronous call
LoopStep(t) ==
    /\ loop[t].pc = "ready"
    /\ ~LoopBlocked
    /\ loop' = [loop EXCEPT ![t] = RunToNextCall(t, loop[t].returned)]
    /\ UNCHANGED notLoop

\* the awaited operation of t completes: t is ready to be resumed
AwaitedCompletes(t) ==
    /\ loop[t].pc = "awaiting"
    /\ loop' = [loop EXCEPT ![t].pc = "ready", ![t].returned = @ + 1]
    /\ UNCHANGED notLoop

\* the synchronous call of t returns: t goes on without giving the thread up
SyncReturns(t) ==
    /\ loop[t].pc = "blocked"
    /\ loop' = [loop EXCEPT ![t] = RunToNextCall(t, loop[t].returned + 1)]
    /\ UNCHANGED notLoop

LoopNext ==
    \/ \E t \in LoopTasks, kind \in RequestKinds : Arrive(t, kind)
    \/ \E t \in LoopTasks : LoopStep(t)
    \/ \E t \in LoopTasks : AwaitedCompletes(t)
    \/ \E t \in LoopTasks : SyncReturns(t)

InitLoop == MemFixedInit /\ RagInit /\ ChatInit /\ HookFixedInit /\ ProcInit

SpecLoop == InitLoop /\ [][LoopNext]_vars

-----------------------------------------------------------------------------
(* Concurrent writers of one session: add_turn (memory_service.py 33-62) holds
   no await, and every caller runs on the one asyncio event loop, so each call
   is one step; requests interleave only at their awaits *)

\* the turns of session sid that add_turn calls leave stored, given the calls'
\* turns in call order
KeptInCallOrder(log, m) == IF Len(log) > m THEN LastWritten(log, m) ELSE log

\* C18 (amended): add_turn calls on one session never interleave inside the
\* call, whatever the overlap of the requests that make them: with a maximum
\* M >= 1 every session that received a turn since its last clear is stored,
\* and its stored turns are the most recent M of the turns added since then,
\* in the order of the add_turn calls. No turn is lost other than the oldest
\* ones truncation drops, and none is stored out of call order.
C18_AddTurnCallsAreSerialized ==
    max_history >= 1 =>
        \A sid \in SessionIds :
            /\ added[sid] # <<>> => HasSession(conversations, sid)
            /\ HasSession(conversations, sid) =>
                  RecordOf(conversations, sid).turns =
                      KeptInCallOrder(added[sid], max_history)

\* C18 witness: two requests ran concurrently on one session (both user turns
\* were added before either assistant turn) and both completed, so four
\* add_turn calls on the session overlapped in time and truncation happened
C18_Witness ==
    /\ max_history >= 1
    /\ req["r1"].pc = "done" /\ req["r2"].pc = "done"
    /\ req["r1"].sid = req["r2"].sid
    /\ LET log == added[req["r1"].sid]
       IN  /\ Len(log) = 4
           /\ log[1].role = "user" /\ log[2].role = "user"
           /\ log[1].content # log[2].content
           /\ Len(log) > max_history

\* C18 as the specification states it: append and truncation are separate
\* steps of add_turn between which another call can run, so a step that
\* appends a turn to a full history leaves more than the maximum stored until
\* a later step truncates it.
C18_AppendAndTruncateInterleave ==
    [][ \A sid \in SessionIds :
          ( /\ max_history >= 1
            /\ HasSession(conversations, sid)
            /\ Len(RecordOf(conversations, sid).turns) = max_history
            /\ Len(added'[sid]) = Len(added[sid]) + 1 )
          => Len(RecordOf(conversations', sid).turns) = max_history + 1
      ]_vars

\* coroutine t is waiting on a language-model, embedding or vector-store call
InExternalCall(t) ==
    /\ loop[t].pc \in {"awaiting", "blocked"}
    /\ CurrentCall(t).service \in {"language_model", "embedding", "vector_store"}

\* C19: every external call is a suspension point: while one request is
\* waiting on a language-model, embedding-service or vector-store call (the
\* calls inside ingest_document and retrieve_context included), every other
\* request that is ready to run is able to take a step.
C19_EveryExternalCallSuspends ==
    \A t \in LoopTasks, u \in LoopTasks :
        (t # u /\ InExternalCall(t) /\ loop[u].pc = "ready") => ENABLED LoopStep(u)

\* the same for the awaited calls only (the language model's): these do suspend
AwaitedCallsSuspend ==
    \A t \in LoopTasks, u \in LoopTasks :
        (t # u /\ InExternalCall(t) /\ CurrentCall(t).awaited
         /\ loop[u].pc = "ready") => ENABLED LoopStep(u)

-----------------------------------------------------------------------------
(* Re-ingestion of a filename (rag_engine.py 176-196), checked under
   SpecReingest *)

\* the collection's entries whose metadata names filename f
EntriesOf(st, f) == { id \in DOMAIN st : st[id].metadata.source = f }

\* entry id of collection st can come back from collection.query
Retrievable(st, id) ==
    \E r \in Rankings(st, TopK) : \E k \in 1..Len(r) : r[k] = id

\* a successful ingestion of n2 > 0 chunks of ragRet'.filename: its entries
\* with index < n2 hold this ingestion's text, embedding and metadata, and the
\* entries of the same filename with index >= n2 are kept as they were and
\* can be retrieved
ReingestOverwritesAligned ==
    LET F == ragRet'.filename
        chunks == SplitText(ragRet'.content)
        n2 == ragRet'.returned
    IN  /\ n2 = Len(chunks)
        /\ \A i \in 1..n2 :
              /\ <<DocHash(F), i - 1>> \in DOMAIN store'
              /\ store'[<<DocHash(F), i - 1>>] =
                    [document |-> chunks[i], embedding |-> Embed(chunks[i]),
                     metadata |-> [source |-> F, chunk_index |-> i - 1,
                                   total_chunks |-> n2, type |-> "none"]]
        /\ \A id \in EntriesOf(store, F) :
              store[id].metadata.chunk_index >= n2 =>
                  /\ id \in DOMAIN store'
                  /\ store'[id] = store[id]
                  /\ Retrievable(store', id)

\* a step in which ingest_document stored chunks
IngestStored ==
    /\ ragRet'.op = "ingest_document" /\ ~ragRet'.raised /\ ragRet'.returned > 0
    /\ <<store, ragRet>>' # <<store, ragRet>>

\* C20: after ingesting filename F into n1 chunks and re-ingesting F into n2
\* chunks, the store entries of F with index < n2 hold the second ingestion's
\* text, embedding and metadata; when n2 < n1 the entries n2..n1-1 of the
\* first ingestion are still present and retrievable; and the entries of
\* every other filename are unchanged.
C20_ReingestLeavesOtherFilesAlone ==
    [][ IngestStored =>
          /\ ReingestOverwritesAligned
          /\ \A id \in DOMAIN store :
                store[id].metadata.source # ragRet'.filename =>
                    id \in DOMAIN store' /\ store'[id] = store[id]
      ]_vars

\* the same with the last part only for the filenames whose ids do not share
\* the eight-digit prefix of F's: this much the code does
ReingestLeavesOtherPrefixesAlone ==
    [][ IngestStored =>
          /\ ReingestOverwritesAligned
          /\ \A id \in DOMAIN store :
                DocHash(store[id].metadata.source) # DocHash(ragRet'.filename) =>
                    id \in DOMAIN store' /\ store'[id] = store[id]
      ]_vars

\* a stale chunk: after a two-chunk and then a one-chunk ingestion of one
\* filename the first ingestion's second chunk is still stored
StaleChunkStored ==
    \E id \in DOMAIN store :
        /\ store[id].metadata.total_chunks = 2 /\ store[id].metadata.chunk_index = 1
        /\ \E id0 \in DOMAIN store :
              /\ id0[1] = id[1] /\ store[id0].metadata.chunk_index = 0
              /\ store[id0].metadata.total_chunks = 1
              /\ store[id0].metadata.source = store[id].metadata.source

-----------------------------------------------------------------------------
(* The messages process_text sends (processor.py 74-103), checked under
   SpecChat *)

\* request r makes its first model request in this step
SendsMessages(r) == req[r].pc = "idle" /\ req'[r].pc = "awaiting_llm"

\* the texts users sent
UserTexts == { TextOf(r) : r \in Requests }

\* C21: in a process_text call with non-empty retrieved context the message
\* list sent to the language model is the session's stored turns in order with
\* only the content of the last message, the current user message, replaced by
\* the context-augmented prompt; stored memory is not altered by the splice:
\* the stored user turn keeps the original text, and every stored user turn is
\* a text as the user sent it, so later requests send earlier user turns
\* un-augmented.
C21_SpliceLeavesMemoryAlone ==
    [][ \A r \in Requests :
          (SendsMessages(r) /\ req'[r].context # <<>>) =>
             LET turns == RecordOf(conversations', req'[r].sid).turns
                 msgs == req'[r].messages
                 n == Len(turns)
             IN  /\ n >= 1 /\ Len(msgs) = n
                 /\ \A i \in 1..(n - 1) :
                       msgs[i] = [role |-> turns[i].role, content |-> turns[i].content]
                 /\ msgs[n] = [role |-> "user",
                               content |-> AugmentedPrompt(req'[r].context, TextOf(r))]
                 /\ turns[n].role = "user" /\ turns[n].content = TextOf(r)
                 /\ \A i \in 1..Len(conversations') :
                       \A k \in 1..Len(conversations'[i].turns) :
                          conversations'[i].turns[k].role = "user" =>
                             conversations'[i].turns[k].content \in UserTexts
      ]_vars

\* C21 witness: both requests ran on one session with retrieved context, and
\* the later one sent the earlier one's user turn as the user wrote it
C21_Witness ==
    /\ req["r1"].context # <<>> /\ req["r2"].context # <<>>
    /\ req["r1"].sid = req["r2"].sid
    /\ req["r2"].pc = "awaiting_llm"
    /\ Len(req["r2"].messages) >= 2
    /\ \E i \in 1..(Len(req["r2"].messages) - 1) :
          req["r2"].messages[i] = [role |-> "user", content |-> TextOf("r1")]
    /\ req["r1"].messages[Len(req["r1"].messages)].content # TextOf("r1")

-----------------------------------------------------------------------------
(* Document messages through the webhook (webhook.py 113-120, processor.py
   215-228), checked under SpecDocTask *)

\* the processor has just been run on a document message whose MIME type has
\* no "pdf" in it
NonPdfDocumentProcessed ==
    /\ task.pc = "process" /\ task'.pc # "process"
    /\ task.msg.message_type = "document"
    /\ ~MimeHasPdf(task.msg.mime_type)

\* C22: a document message received through the webhook whose payload is not
\* a PDF (MIME type without "pdf"), with or without a caption, is answered
\* with the rejection message naming the unsupported type, and no PDF
\* extraction or vector-store ingestion is attempted for it (nothing is
\* stored and no ingestion error ends the processing).
C22_NonPdfDocumentRejected ==
    [][ NonPdfDocumentProcessed =>
          /\ task'.pc = "reply"
          /\ task'.reply = UnsupportedText(task.msg.mime_type)
          /\ store' = store
      ]_vars

\* the same for the captions that do not end in ".pdf": these are rejected
NonPdfNamedDocumentRejected ==
    [][ (NonPdfDocumentProcessed /\ task.msg.caption = "notes.txt") =>
          /\ task'.pc = "reply"
          /\ task'.reply = UnsupportedText(task.msg.mime_type)
          /\ store' = store
      ]_vars

-----------------------------------------------------------------------------
(* Ragged embedding results (rag_engine.py 66-73, hf_service.py 216-223),
   checked under SpecEmb *)

\* a rank-2 result whose rows do not all have the first row's length
Ragged(rows) == \E t \in 1..Len(rows) : Len(rows[t]) # Len(rows[1])

\* C23: for rank-2 embedding input whose rows have differing lengths (a later
\* row shorter or longer than the first), neither normalizer raises and each
\* returns a flat vector.
C23_RaggedInputNeverRaises ==
    (embRet.done /\ embRet.input.rank = 2 /\ Ragged(embRet.input.v)) =>
        /\ ~embRet.rag.raised /\ ~embRet.hf.raised
        /\ Len(embRet.rag.vec) = Len(embRet.input.v[1])
        /\ Len(embRet.hf.vec) = Len(embRet.input.v[1])

\* the same when no row is shorter than the first: the surplus of a longer
\* row is never read
LongerRowsAreTruncated ==
    (embRet.done /\ embRet.input.rank = 2 /\ Ragged(embRet.input.v)
     /\ \A t \in 1..Len(embRet.input.v) : Len(embRet.input.v[t]) >= Len(embRet.input.v[1])) =>
        /\ ~embRet.rag.raised /\ ~embRet.hf.raised
        /\ Len(embRet.rag.vec) = Len(embRet.input.v[1])
        /\ Len(embRet.hf.vec) = Len(embRet.input.v[1])

-----------------------------------------------------------------------------
(* Further claims about MemoryService, checked under SpecMem *)

\* C24: when the configured maximum history length is 0 the length bound
\* still holds: after any number of add_turn calls on a session its stored
\* turn sequence has length 0.
C24_ZeroMaxKeepsNothing ==
    max_history = 0 =>
        \A i \in 1..Len(conversations) : Len(conversations[i].turns) = 0

\* C25: add_turn and clear_session never run the expiry sweep: they remove or
\* change no other session, expired or not; and when a session's last write
\* is older than the TTL and the next access to it is add_turn, the new turn
\* is appended to the session's old turns, its last-modified time is
\* refreshed, and the session, old turns included, is live again for later
\* get_history calls instead of starting empty.
C25_AddTurnRevivesExpiredSession ==
    [][ /\ memRet'.op \in {"add_turn", "clear_session"} =>
            \A i \in 1..Len(conversations) :
                conversations[i].session_id # memRet'.sid =>
                    /\ HasSession(conversations', conversations[i].session_id)
                    /\ RecordOf(conversations', conversations[i].session_id)
                          = conversations[i]
        /\ (memRet'.op = "add_turn" /\ HasSession(conversations, memRet'.sid)) =>
            LET s == memRet'.sid
                old == RecordOf(conversations, s)
                new == RecordOf(conversations', s)
                all == Append(old.turns, added'[s][Len(added'[s])])
            IN  /\ HasSession(conversations', s)
                /\ new.turns = IF max_history >= 1 /\ Len(all) > max_history
                               THEN LastWritten(all, max_history) ELSE all
                /\ new.updated_at = now
                /\ ~OlderThanTtl(new, now)
                /\ HistoryOf(CleanupExpired(conversations', now, ttl_hours), s) = new.turns
      ]_vars

\* C25 witness: add_turn was called on a session whose last write was older
\* than the TTL, and the session now holds its old turn and the new one
C25_Witness ==
    /\ memRet.op = "add_turn" /\ memRet.stale
    /\ HasSession(conversations, memRet.sid)
    /\ Len(RecordOf(conversations, memRet.sid).turns) >= 2
    /\ RecordOf(conversations, memRet.sid).updated_at = now
    /\ now > ttl_hours

-----------------------------------------------------------------------------
(* Failed and overlapping process_text calls, checked under SpecChat *)

\* the last stored turn of session sid, when it has one
HasLastTurn(convs, sid) == HasSession(convs, sid) /\ RecordOf(convs, sid).turns # <<>>
LastStoredTurn(convs, sid) ==
    RecordOf(convs, sid).turns[Len(RecordOf(convs, sid).turns)]

\* C26: process_text records the user turn before the language-model call and
\* has no rollback: when the model call fails after its retries the handler
\* answers 500 and memory is left as it is, the user turn still stored with no
\* assistant turn after it; so a request that starts on a session whose last
\* stored turn is a user turn sends (history length >= 2) two consecutive user
\* messages to the model, the unanswered one followed by its own.
C26_FailedCallLeavesUserTurn ==
    [][ \A r \in Requests :
          /\ (req[r].pc = "awaiting_llm" /\ req'[r].pc = "failed") =>
                /\ conversations' = conversations
                /\ req'[r].http = 500
          /\ (SendsMessages(r) /\ max_history >= 2
              /\ HasLastTurn(conversations, req'[r].sid)
              /\ LastStoredTurn(conversations, req'[r].sid).role = "user") =>
                LET msgs == req'[r].messages
                    n == Len(msgs)
                IN  /\ n >= 2
                    /\ msgs[n].role = "user"
                    /\ msgs[n - 1] =
                          [role |-> "user",
                           content |-> LastStoredTurn(conversations, req'[r].sid).content]
      ]_vars

\* C26 witness: r1 failed after its last attempt, and r2, on the same session,
\* sent r1's unanswered user message followed by its own
C26_Witness ==
    /\ req["r1"].pc = "failed" /\ req["r1"].attempts = MaxAttempts
    /\ req["r2"].pc = "awaiting_llm" /\ req["r2"].sid = req["r1"].sid
    /\ Len(req["r2"].messages) = 2
    /\ req["r2"].messages[1] = [role |-> "user", content |-> TextOf("r1")]
    /\ req["r2"].messages[2].role = "user"
    /\ HasLastTurn(conversations, req["r1"].sid)
    /\ RecordOf(conversations, req["r1"].sid).turns[1].content = TextOf("r1")

\* text is what sequence t ends with
EndsWith(t, text) ==
    Len(t) >= Len(text) /\ SubSeq(t, Len(t) - Len(text) + 1, Len(t)) = text

\* C27: for every process_text call, under any interleaving with the other
\* requests on the same session (process_text calls, clear_session) at its
\* suspension points, the message whose content it replaces with its own
\* (possibly augmented) prompt is the user turn recorded by that same call:
\* the list sent to the model is non-empty, its last message is this call's
\* prompt and ends with this call's text, the stored turn in that place is
\* this call's user turn, and every other message is a stored turn
\* unmodified, the other request's user turn included when the session
\* holds it.
C27_SpliceHitsOwnUserTurn ==
    [][ \A r \in Requests :
          SendsMessages(r) =>
             LET sid == req'[r].sid
                 turns == RecordOf(conversations', sid).turns
                 msgs == req'[r].messages
                 n == Len(msgs)
             IN  /\ n >= 1 /\ HasSession(conversations', sid) /\ Len(turns) = n
                 /\ msgs[n].role = "user"
                 /\ msgs[n].content = BuildPrompt(req'[r].context, TextOf(r))
                 /\ EndsWith(msgs[n].content, TextOf(r))
                 /\ turns[n] = [role |-> "user", content |-> TextOf(r),
                                message_type |-> "text"]
                 /\ \A i \in 1..(n - 1) :
                       /\ msgs[i] = [role |-> turns[i].role, content |-> turns[i].content]
                       /\ msgs[i].role = "user" =>
                             \E o \in Requests \ {r} : msgs[i].content = TextOf(o)
      ]_vars

\* C27 witness: r2 sent its messages while r1, on the same session, was
\* suspended in its model call; the list holds r1's user turn as written and
\* r2's own prompt last
C27_Witness ==
    /\ req["r1"].pc = "awaiting_llm" /\ req["r2"].pc = "awaiting_llm"
    /\ req["r1"].sid = req["r2"].sid
    /\ Len(req["r2"].messages) = 2
    /\ req["r2"].messages[1] = [role |-> "user", content |-> TextOf("r1")]
    /\ EndsWith(req["r2"].messages[2].content, TextOf("r2"))
    /\ req["r1"].messages[Len(req["r1"].messages)].content # TextOf("r2")

-----------------------------------------------------------------------------
(* Further claims about process_whatsapp_message, checked under SpecTask *)

\* the send at place i of the task delivered a part of the generated reply
DeliveredReply(t, i) ==
    t.sent[i].kind = "text" /\ t.sent[i].body # ApologyText /\ t.sent[i].ok

\* the send at place j of the task is the apology text or the failure reaction
ApologyOrFailureReaction(t, j) ==
    \/ t.sent[j].kind = "text" /\ t.sent[j].body = ApologyText
    \/ t.sent[j].kind = "reaction" /\ t.sent[j].body = << "cross" >>

\* C28: in process_whatsapp_message the apology text is sent only when no
\* part of the generated reply has been delivered: no execution sends one or
\* more reply messages to the user and then also sends the apology text or
\* the failure reaction for the same inbound message.
C28_NoApologyAfterReply ==
    \A i \in 1..Len(task.sent), j \in 1..Len(task.sent) :
        ~(i < j /\ DeliveredReply(task, i) /\ ApologyOrFailureReaction(task, j))

-----------------------------------------------------------------------------
(* Failing ingestion (rag_engine.py 173-196), checked under SpecRag *)

\* C29: ingestion is all-or-nothing with respect to the vector store: all
\* chunk embeddings are computed before the single upsert, so when the
\* embedding call fails for any chunk the error propagates and no chunk of
\* that document, and nothing else, is written to the store; and a step that
\* writes to the store has embedded every chunk and made one upsert.
C29_EmbeddingFailureWritesNothing ==
    [][ /\ (IsIngest(ragRet') /\ ragRet'.fail = "embed") =>
            /\ ragRet'.raised
            /\ store' = store
            /\ ragRet'.storeOps = <<>> /\ ragRet'.batch = <<>>
        /\ store' # store =>
            /\ IsIngest(ragRet') /\ ~ragRet'.raised
            /\ ragRet'.embedCalls = SplitText(ragRet'.content)
            /\ ragRet'.storeOps = <<"get_or_create_collection", "upsert">>
            /\ Len(ragRet'.batch) = Len(ragRet'.embedCalls)
      ]_vars

\* C29 witness: the embedding of the second chunk of a two-chunk document
\* failed after the first had been embedded, and the collection holds only
\* what another document had put there
C29_Witness ==
    /\ IsIngest(ragRet) /\ ragRet.fail = "embed" /\ ragRet.raised
    /\ Len(ragRet.embedCalls) = 2
    /\ store # EmptyStore
    /\ \A id \in DOMAIN store : store[id].metadata.source # ragRet.filename

-----------------------------------------------------------------------------
(* The model requests of one image request, checked under SpecVision *)

\* C30: within one process_image request carrying a non-default question the
\* language model is requested at most 3 times in total and the
\* image-captioning model is requested once; no failure pattern of the model
\* calls makes a single request issue more than 3 language-model requests.
C30_AtMostThreeLlmRequestsPerImage ==
    \A r \in ImageRequests :
        (vis[r].pc # "idle" /\ ~IsDefaultPrompt(vis[r].caption)) =>
            /\ vis[r].llm_requests <= MaxAttempts
            /\ vis[r].captions = 1

\* what the nested retries do allow: three captioning requests, and three
\* language-model requests after each caption
NestedRetryBounds ==
    \A r \in ImageRequests :
        /\ vis[r].captions <= MaxAttempts
        /\ vis[r].llm_requests <= MaxAttempts * MaxAttempts
        /\ vis[r].llm_requests <= MaxAttempts * vis[r].captions

\* a request whose language-model requests all failed made nine of them
NineLlmRequests ==
    \E r \in ImageRequests :
        vis[r].pc = "failed" /\ vis[r].llm_requests = MaxAttempts * MaxAttempts

=============================================================================
